---- MODULE Spec2Model ----
(***************************************************************************)
(* The event-processing engine of the payments crate: the Client ledger    *)
(* (src/model/client.rs), the Transaction record and its dispute-status    *)
(* transition check (src/model/transaction.rs), the Processor              *)
(* (src/system/processor.rs), the driving loop process_events              *)
(* (src/system/processing.rs), and its caller run_aux (src/lib.rs) with    *)
(* write_report (src/format/csv/output.rs).                                *)
(*                                                                         *)
(* Amounts are rust_decimal values; the engine only adds, subtracts,       *)
(* negates and compares them, so they are modelled as integers (one unit   *)
(* of the smallest decimal place).  rust_decimal panics when a sum leaves  *)
(* its 96-bit range; the amounts explored stay far inside it.              *)
(*                                                                         *)
(* src/model/transaction.rs names the middle dispute status `Pending`;     *)
(* src/system/processor.rs refers to the same variant as `Disputed`.       *)
(***************************************************************************)
EXTENDS Integers, Sequences, FiniteSets, TLC

\* ---------------------------------------------------------------- bounds
\* Client ids 1..MaxClient, transaction ids 1..MaxTx, amounts from -MaxDebit
\* to MaxAmount (the parser accepts negative amounts), feeds of at most
\* MaxEvents items of which at most MaxErrors are rejected.
MaxClient == 2

MaxTx == 2

MaxDebit == 1

MaxAmount == 1

MaxEvents == 5

MaxErrors == 2

ClientIDs == 1..MaxClient

TransactionIDs == 1..MaxTx

Amounts == (0 - MaxDebit)..MaxAmount

\* ----------------------------------------------------------- enumerations
\* enum TransactionKind
TransactionKind == {"Deposit", "Withdrawal"}

\* enum DisputeStepKind
DisputeStepKind == {"Dispute", "Resolve", "Chargeback"}

\* enum DisputeStatus { None, Pending, ChargedBack }
DisputeStatus == {"None", "Pending", "ChargedBack"}

\* The variant processor.rs calls DisputeStatus::Disputed.
Disputed == "Pending"

\* Event::Transaction { kind, transaction_id, client_id, amount }
TransactionEvents(amounts) ==
    [type : {"Transaction"}, kind : TransactionKind,
     transaction_id : TransactionIDs, client_id : ClientIDs, amount : amounts]

\* Event::DisputeStep { kind, transaction_id, client_id }
DisputeStepEvents ==
    [type : {"DisputeStep"}, kind : DisputeStepKind,
     transaction_id : TransactionIDs, client_id : ClientIDs]

\* enum Event { Transaction {..}, DisputeStep {..} }
Event == TransactionEvents(Amounts) \cup DisputeStepEvents

\* ------------------------------------------------------ Result<(), String>
\* An Err(String) is kept as the format string and its arguments.
Ok == [msg |-> "Ok", args |-> <<>>]

Err(msg, args) == [msg |-> msg, args |-> args]

ERR_DEPOSIT_LOCKED == "Cannot deposit when account is locked."

ERR_WITHDRAW_LOCKED == "Cannot withdraw when account is locked."

ERR_INSUFFICIENT == "Insufficient funds."

ERR_CHARGED_BACK == "Transaction has already been charged back."

ERR_NOT_DISPUTED == "Transaction is not disputed."

ERR_ALREADY_DISPUTED == "Transaction is already disputed."

ERR_MISMATCH == "Client id {} does not match transaction client id {}."

ERR_EXISTS == "Transaction already exists with id {}."

ERR_NOT_FOUND == "Transaction {} not found."

ERR_NO_CLIENT == "Client {} does not exist."

\* The errors of Client::deposit and Client::withdraw
LedgerErrors == {ERR_DEPOSIT_LOCKED, ERR_WITHDRAW_LOCKED, ERR_INSUFFICIENT}

\* ------------------------------------------------------------ HashMap ops
\* HashMap::insert
MapInsert(m, k, v) == [x \in (DOMAIN m) \cup {k} |-> IF x = k THEN v ELSE m[x]]

\* HashMap::new
EmptyMap == [x \in {} |-> 0]

\* ------------------------------------------------------------ Client
\* Client::new
Client_new == [held |-> 0, total |-> 0, locked |-> FALSE]

\* Client::available
available(c) == c.total - c.held

\* Client::deposit without the lock check
Client_deposit_ignores_lock(c, amount) ==
    [result |-> Ok, client |-> [c EXCEPT !.total = @ + amount]]

\* Client::deposit with `total = amount` for `total += amount`
Client_deposit_overwrites(c, amount) ==
    IF c.locked
    THEN [result |-> Err(ERR_DEPOSIT_LOCKED, <<>>), client |-> c]
    ELSE [result |-> Ok, client |-> [c EXCEPT !.total = amount]]

\* Client::deposit; returns the result and the client after the call
Client_deposit(c, amount) ==
    IF c.locked
    THEN [result |-> Err(ERR_DEPOSIT_LOCKED, <<>>), client |-> c]
    ELSE [result |-> Ok, client |-> [c EXCEPT !.total = @ + amount]]

\* Client::withdraw comparing the amount with total instead of available()
Client_withdraw_checks_total(c, amount) ==
    IF c.locked
    THEN [result |-> Err(ERR_WITHDRAW_LOCKED, <<>>), client |-> c]
    ELSE IF c.total < amount
         THEN [result |-> Err(ERR_INSUFFICIENT, <<>>), client |-> c]
         ELSE [result |-> Ok, client |-> [c EXCEPT !.total = @ - amount]]

\* Client::withdraw taking the money before it finds the funds insufficient
Client_withdraw_debits_first(c, amount) ==
    IF c.locked
    THEN [result |-> Err(ERR_WITHDRAW_LOCKED, <<>>), client |-> c]
    ELSE IF available(c) < amount
         THEN [result |-> Err(ERR_INSUFFICIENT, <<>>),
               client |-> [c EXCEPT !.total = @ - amount]]
         ELSE [result |-> Ok, client |-> [c EXCEPT !.total = @ - amount]]

\* Client::withdraw with the funds check ahead of the lock check
Client_withdraw_checks_funds_first(c, amount) ==
    IF available(c) < amount
    THEN [result |-> Err(ERR_INSUFFICIENT, <<>>), client |-> c]
    ELSE IF c.locked
         THEN [result |-> Err(ERR_WITHDRAW_LOCKED, <<>>), client |-> c]
         ELSE [result |-> Ok, client |-> [c EXCEPT !.total = @ - amount]]

\* Client::withdraw refusing to take the whole available balance
\* (`<=` for `<`)
Client_withdraw_exclusive_bound(c, amount) ==
    IF c.locked
    THEN [result |-> Err(ERR_WITHDRAW_LOCKED, <<>>), client |-> c]
    ELSE IF available(c) <= amount
         THEN [result |-> Err(ERR_INSUFFICIENT, <<>>), client |-> c]
         ELSE [result |-> Ok, client |-> [c EXCEPT !.total = @ - amount]]

\* Client::withdraw
Client_withdraw(c, amount) ==
    IF c.locked
    THEN [result |-> Err(ERR_WITHDRAW_LOCKED, <<>>), client |-> c]
    ELSE IF available(c) < amount
         THEN [result |-> Err(ERR_INSUFFICIENT, <<>>), client |-> c]
         ELSE [result |-> Ok, client |-> [c EXCEPT !.total = @ - amount]]

\* Client::hold leaving a locked account as it is
Client_hold_respects_lock(c, amount) ==
    IF c.locked THEN c ELSE [c EXCEPT !.held = @ + amount]

\* Client::hold taking what it holds out of total
Client_hold_debits_total(c, amount) ==
    [c EXCEPT !.held = @ + amount, !.total = @ - amount]

\* Client::hold
Client_hold(c, amount) == [c EXCEPT !.held = @ + amount]

\* Client::chargeback leaving the account unlocked
Client_chargeback_without_lock(c, amount) ==
    [c EXCEPT !.held = @ - amount, !.total = @ - amount]

\* Client::chargeback releasing the hold without touching total
Client_chargeback_keeps_total(c, amount) ==
    [c EXCEPT !.held = @ - amount, !.locked = TRUE]

\* Client::chargeback taking the amount from total without releasing the hold
Client_chargeback_keeps_held(c, amount) ==
    [c EXCEPT !.total = @ - amount, !.locked = TRUE]

\* Client::chargeback
Client_chargeback(c, amount) ==
    [c EXCEPT !.held = @ - amount, !.total = @ - amount, !.locked = TRUE]

\* ------------------------------------------------------------ Transaction
\* Transaction::new
Transaction_new(client_id, amount, kind) ==
    [client_id |-> client_id, amount |-> amount, kind |-> kind,
     dispute_status |-> "None"]

\* Transaction::set_dispute_status rebuilding the record and losing its amount
set_dispute_status_loses_amount(t, dispute_status) ==
    [t EXCEPT !.dispute_status = dispute_status, !.amount = 0]

\* Transaction::set_dispute_status
set_dispute_status(t, dispute_status) ==
    [t EXCEPT !.dispute_status = dispute_status]

\* validate_dispute_status_transition with the arm (ChargedBack, Pending)
\* allowed
validate_reopens_charged_back(t, new_dispute_status) ==
    LET old == t.dispute_status IN
    IF \/ (old = "None" /\ new_dispute_status = "Pending")
       \/ (old = "Pending" /\ new_dispute_status = "None")
       \/ (old = "Pending" /\ new_dispute_status = "ChargedBack")
       \/ (old = "ChargedBack" /\ new_dispute_status = "Pending")
    THEN Ok
    ELSE IF old = "ChargedBack" THEN Err(ERR_CHARGED_BACK, <<>>)
    ELSE IF old = "None" THEN Err(ERR_NOT_DISPUTED, <<>>)
    ELSE Err(ERR_ALREADY_DISPUTED, <<>>)

\* validate_dispute_status_transition with the arm (None, ChargedBack) allowed
validate_allows_chargeback_of_undisputed(t, new_dispute_status) ==
    LET old == t.dispute_status IN
    IF \/ (old = "None" /\ new_dispute_status = "Pending")
       \/ (old = "Pending" /\ new_dispute_status = "None")
       \/ (old = "Pending" /\ new_dispute_status = "ChargedBack")
       \/ (old = "None" /\ new_dispute_status = "ChargedBack")
    THEN Ok
    ELSE IF old = "ChargedBack" THEN Err(ERR_CHARGED_BACK, <<>>)
    ELSE IF old = "None" THEN Err(ERR_NOT_DISPUTED, <<>>)
    ELSE Err(ERR_ALREADY_DISPUTED, <<>>)

\* Transaction::validate_dispute_status_transition (match arms in order)
validate_dispute_status_transition(t, new_dispute_status) ==
    LET old == t.dispute_status IN
    IF \/ (old = "None" /\ new_dispute_status = "Pending")
       \/ (old = "Pending" /\ new_dispute_status = "None")
       \/ (old = "Pending" /\ new_dispute_status = "ChargedBack")
    THEN Ok
    ELSE IF old = "ChargedBack" THEN Err(ERR_CHARGED_BACK, <<>>)
    ELSE IF old = "None" THEN Err(ERR_NOT_DISPUTED, <<>>)
    ELSE Err(ERR_ALREADY_DISPUTED, <<>>)

\* ------------------------------------------------------------ Processor
\* A Processor value: the two maps it owns.
Processor_new == [clients_by_id |-> EmptyMap, transactions_by_id |-> EmptyMap]

\* Processor::check_client_owns_transaction
check_client_owns_transaction(client_id, transaction) ==
    IF client_id # transaction.client_id
    THEN Err(ERR_MISMATCH, <<client_id, transaction.client_id>>)
    ELSE Ok

\* check_transaction_does_not_exist that never finds the id
check_transaction_never_exists(p, transaction_id) == Ok

\* Processor::check_transaction_does_not_exist
check_transaction_does_not_exist(p, transaction_id) ==
    IF transaction_id \in DOMAIN p.transactions_by_id
    THEN Err(ERR_EXISTS, <<transaction_id>>)
    ELSE Ok

\* Processor::find_or_create_client: entry(client_id).or_insert_with(Client::new)
find_or_create_client(p, client_id) ==
    IF client_id \in DOMAIN p.clients_by_id
    THEN p
    ELSE [p EXCEPT !.clients_by_id = MapInsert(@, client_id, Client_new)]

\* Processor::create_transaction starting a new map for the record
create_transaction_alone(p, transaction_id, transaction) ==
    [p EXCEPT !.transactions_by_id = MapInsert(EmptyMap, transaction_id, transaction)]

\* Processor::create_transaction
create_transaction(p, transaction_id, transaction) ==
    [p EXCEPT !.transactions_by_id = MapInsert(@, transaction_id, transaction)]

\* get_transaction_and_client reporting a missing record as a missing client
get_transaction_and_client_blames_client(p, transaction_id) ==
    IF transaction_id \notin DOMAIN p.transactions_by_id
    THEN Err(ERR_NO_CLIENT, <<transaction_id>>)
    ELSE IF p.transactions_by_id[transaction_id].client_id
                \notin DOMAIN p.clients_by_id
         THEN Err(ERR_NO_CLIENT, <<p.transactions_by_id[transaction_id].client_id>>)
         ELSE Ok

\* Processor::get_transaction_and_client: the lookups and their errors
get_transaction_and_client(p, transaction_id) ==
    IF transaction_id \notin DOMAIN p.transactions_by_id
    THEN Err(ERR_NOT_FOUND, <<transaction_id>>)
    ELSE IF p.transactions_by_id[transaction_id].client_id
                \notin DOMAIN p.clients_by_id
         THEN Err(ERR_NO_CLIENT, <<p.transactions_by_id[transaction_id].client_id>>)
         ELSE Ok

\* Processor::deposit creating the Transaction whether or not the ledger
\* accepted the deposit
deposit_records_refused(p, transaction_id, client_id, amount) ==
    LET exists == check_transaction_does_not_exist(p, transaction_id) IN
    IF exists # Ok THEN [p |-> p, result |-> exists]
    ELSE
    LET p1 == find_or_create_client(p, client_id)
        r  == Client_deposit(p1.clients_by_id[client_id], amount)
        p2 == [p1 EXCEPT !.clients_by_id[client_id] = r.client]
    IN  [p |-> create_transaction(p2, transaction_id,
                   Transaction_new(client_id, amount, "Deposit")),
         result |-> r.result]

\* Processor::deposit recording the Transaction in the maps it started with:
\* the client entry it found or created is not kept
deposit_drops_client_entry(p, transaction_id, client_id, amount) ==
    LET exists == check_transaction_does_not_exist(p, transaction_id) IN
    IF exists # Ok THEN [p |-> p, result |-> exists]
    ELSE
    LET p1 == find_or_create_client(p, client_id)
        r  == Client_deposit(p1.clients_by_id[client_id], amount)
        p2 == [p1 EXCEPT !.clients_by_id[client_id] = r.client]
    IN  IF r.result # Ok THEN [p |-> p2, result |-> r.result]
        ELSE [p |-> create_transaction(p, transaction_id,
                        Transaction_new(client_id, amount, "Deposit")),
              result |-> Ok]

\* Processor::deposit
deposit(p, transaction_id, client_id, amount) ==
    LET exists == check_transaction_does_not_exist(p, transaction_id) IN
    IF exists # Ok THEN [p |-> p, result |-> exists]
    ELSE
    LET p1 == find_or_create_client(p, client_id)
        r  == Client_deposit(p1.clients_by_id[client_id], amount)
        p2 == [p1 EXCEPT !.clients_by_id[client_id] = r.client]
    IN  IF r.result # Ok THEN [p |-> p2, result |-> r.result]
        ELSE [p |-> create_transaction(p2, transaction_id,
                        Transaction_new(client_id, amount, "Deposit")),
              result |-> Ok]

\* Processor::withdraw looking the client up only once the ledger would
\* accept: a refused withdrawal leaves the client map as it was
withdraw_creates_on_success(p, transaction_id, client_id, amount) ==
    LET exists == check_transaction_does_not_exist(p, transaction_id) IN
    IF exists # Ok THEN [p |-> p, result |-> exists]
    ELSE
    LET p1 == find_or_create_client(p, client_id)
        r  == Client_withdraw(p1.clients_by_id[client_id], amount)
        p2 == [p1 EXCEPT !.clients_by_id[client_id] = r.client]
    IN  IF r.result # Ok THEN [p |-> p, result |-> r.result]
        ELSE [p |-> create_transaction(p2, transaction_id,
                        Transaction_new(client_id, amount, "Withdrawal")),
              result |-> Ok]

\* Processor::withdraw finding or creating the client before it looks for a
\* record of the transaction id
withdraw_finds_client_first(p, transaction_id, client_id, amount) ==
    LET p1 == find_or_create_client(p, client_id)
        exists == check_transaction_does_not_exist(p1, transaction_id)
    IN
    IF exists # Ok THEN [p |-> p1, result |-> exists]
    ELSE
    LET r  == Client_withdraw(p1.clients_by_id[client_id], amount)
        p2 == [p1 EXCEPT !.clients_by_id[client_id] = r.client]
    IN  IF r.result # Ok THEN [p |-> p2, result |-> r.result]
        ELSE [p |-> create_transaction(p2, transaction_id,
                        Transaction_new(client_id, amount, "Withdrawal")),
              result |-> Ok]

\* Processor::withdraw creating the Transaction whether or not the ledger
\* accepted the withdrawal
withdraw_records_refused(p, transaction_id, client_id, amount) ==
    LET exists == check_transaction_does_not_exist(p, transaction_id) IN
    IF exists # Ok THEN [p |-> p, result |-> exists]
    ELSE
    LET p1 == find_or_create_client(p, client_id)
        r  == Client_withdraw(p1.clients_by_id[client_id], amount)
        p2 == [p1 EXCEPT !.clients_by_id[client_id] = r.client]
    IN  [p |-> create_transaction(p2, transaction_id,
                    Transaction_new(client_id, amount, "Withdrawal")),
         result |-> r.result]

\* Processor::withdraw
withdraw(p, transaction_id, client_id, amount) ==
    LET exists == check_transaction_does_not_exist(p, transaction_id) IN
    IF exists # Ok THEN [p |-> p, result |-> exists]
    ELSE
    LET p1 == find_or_create_client(p, client_id)
        r  == Client_withdraw(p1.clients_by_id[client_id], amount)
        p2 == [p1 EXCEPT !.clients_by_id[client_id] = r.client]
    IN  IF r.result # Ok THEN [p |-> p2, result |-> r.result]
        ELSE [p |-> create_transaction(p2, transaction_id,
                        Transaction_new(client_id, amount, "Withdrawal")),
              result |-> Ok]

\* Processor::dispute holding +amount whatever the kind
dispute_hold_amount_unsigned(transaction) == transaction.amount

\* The amount Processor::dispute passes to Client::hold
dispute_hold_amount(transaction) ==
    IF transaction.kind = "Deposit" THEN transaction.amount
    ELSE -transaction.amount

\* Processor::resolve releasing -amount whatever the kind
resolve_hold_amount_unsigned(transaction) == 0 - transaction.amount

\* The amount Processor::resolve passes to Client::hold
resolve_hold_amount(transaction) ==
    IF transaction.kind = "Deposit" THEN -transaction.amount
    ELSE transaction.amount

\* Processor::chargeback charging back +amount whatever the kind
chargeback_amount_unsigned(transaction) == transaction.amount

\* The amount Processor::chargeback passes to Client::chargeback
chargeback_amount(transaction) ==
    IF transaction.kind = "Deposit" THEN transaction.amount
    ELSE -transaction.amount

\* Processor::dispute calling Client::hold before it validates the transition
dispute_holds_before_validating(p, transaction_id, client_id) ==
    LET found == get_transaction_and_client(p, transaction_id) IN
    IF found # Ok THEN [p |-> p, result |-> found]
    ELSE
    LET transaction == p.transactions_by_id[transaction_id]
        owner == transaction.client_id
        owns  == check_client_owns_transaction(client_id, transaction)
        valid == validate_dispute_status_transition(transaction, Disputed)
        held  == [p EXCEPT !.clients_by_id[owner] =
                      Client_hold(@, dispute_hold_amount(transaction))]
    IN  IF owns # Ok THEN [p |-> p, result |-> owns]
        ELSE IF valid # Ok THEN [p |-> held, result |-> valid]
        ELSE [p |-> [held EXCEPT !.transactions_by_id[transaction_id] =
                           set_dispute_status(@, Disputed)],
              result |-> Ok]

\* Processor::dispute refusing to hold more than the client has available
dispute_requires_available(p, transaction_id, client_id) ==
    LET found == get_transaction_and_client(p, transaction_id) IN
    IF found # Ok THEN [p |-> p, result |-> found]
    ELSE
    LET transaction == p.transactions_by_id[transaction_id]
        owner == transaction.client_id
        owns  == check_client_owns_transaction(client_id, transaction)
        valid == validate_dispute_status_transition(transaction, Disputed)
    IN  IF owns # Ok THEN [p |-> p, result |-> owns]
        ELSE IF valid # Ok THEN [p |-> p, result |-> valid]
        ELSE IF available(p.clients_by_id[owner]) < dispute_hold_amount(transaction)
        THEN [p |-> p, result |-> Err(ERR_INSUFFICIENT, <<>>)]
        ELSE [p |-> [p EXCEPT
                       !.clients_by_id[owner] =
                           Client_hold(@, dispute_hold_amount(transaction)),
                       !.transactions_by_id[transaction_id] =
                           set_dispute_status(@, Disputed)],
              result |-> Ok]

\* Processor::dispute
dispute(p, transaction_id, client_id) ==
    LET found == get_transaction_and_client(p, transaction_id) IN
    IF found # Ok THEN [p |-> p, result |-> found]
    ELSE
    LET transaction == p.transactions_by_id[transaction_id]
        owner == transaction.client_id
        owns  == check_client_owns_transaction(client_id, transaction)
        valid == validate_dispute_status_transition(transaction, Disputed)
    IN  IF owns # Ok THEN [p |-> p, result |-> owns]
        ELSE IF valid # Ok THEN [p |-> p, result |-> valid]
        ELSE [p |-> [p EXCEPT
                       !.clients_by_id[owner] =
                           Client_hold(@, dispute_hold_amount(transaction)),
                       !.transactions_by_id[transaction_id] =
                           set_dispute_status(@, Disputed)],
              result |-> Ok]

\* Processor::resolve releasing the hold without set_dispute_status
resolve_keeps_status(p, transaction_id, client_id) ==
    LET found == get_transaction_and_client(p, transaction_id) IN
    IF found # Ok THEN [p |-> p, result |-> found]
    ELSE
    LET transaction == p.transactions_by_id[transaction_id]
        owner == transaction.client_id
        owns  == check_client_owns_transaction(client_id, transaction)
        valid == validate_dispute_status_transition(transaction, "None")
    IN  IF owns # Ok THEN [p |-> p, result |-> owns]
        ELSE IF valid # Ok THEN [p |-> p, result |-> valid]
        ELSE [p |-> [p EXCEPT
                       !.clients_by_id[owner] =
                           Client_hold(@, resolve_hold_amount(transaction))],
              result |-> Ok]

\* Processor::resolve
resolve(p, transaction_id, client_id) ==
    LET found == get_transaction_and_client(p, transaction_id) IN
    IF found # Ok THEN [p |-> p, result |-> found]
    ELSE
    LET transaction == p.transactions_by_id[transaction_id]
        owner == transaction.client_id
        owns  == check_client_owns_transaction(client_id, transaction)
        valid == validate_dispute_status_transition(transaction, "None")
    IN  IF owns # Ok THEN [p |-> p, result |-> owns]
        ELSE IF valid # Ok THEN [p |-> p, result |-> valid]
        ELSE [p |-> [p EXCEPT
                       !.clients_by_id[owner] =
                           Client_hold(@, resolve_hold_amount(transaction)),
                       !.transactions_by_id[transaction_id] =
                           set_dispute_status(@, "None")],
              result |-> Ok]

\* Processor::chargeback validating the transition before the ownership check
chargeback_validates_before_owner(p, transaction_id, client_id) ==
    LET found == get_transaction_and_client(p, transaction_id) IN
    IF found # Ok THEN [p |-> p, result |-> found]
    ELSE
    LET transaction == p.transactions_by_id[transaction_id]
        owner == transaction.client_id
        owns  == check_client_owns_transaction(client_id, transaction)
        valid == validate_dispute_status_transition(transaction, "ChargedBack")
    IN  IF valid # Ok THEN [p |-> p, result |-> valid]
        ELSE IF owns # Ok THEN [p |-> p, result |-> owns]
        ELSE [p |-> [p EXCEPT
                       !.clients_by_id[owner] =
                           Client_chargeback(@, chargeback_amount(transaction)),
                       !.transactions_by_id[transaction_id] =
                           set_dispute_status(@, "ChargedBack")],
              result |-> Ok]

\* Processor::chargeback without validate_dispute_status_transition
chargeback_without_validation(p, transaction_id, client_id) ==
    LET found == get_transaction_and_client(p, transaction_id) IN
    IF found # Ok THEN [p |-> p, result |-> found]
    ELSE
    LET transaction == p.transactions_by_id[transaction_id]
        owner == transaction.client_id
        owns  == check_client_owns_transaction(client_id, transaction)
    IN  IF owns # Ok THEN [p |-> p, result |-> owns]
        ELSE [p |-> [p EXCEPT
                       !.clients_by_id[owner] =
                           Client_chargeback(@, chargeback_amount(transaction)),
                       !.transactions_by_id[transaction_id] =
                           set_dispute_status(@, "ChargedBack")],
              result |-> Ok]

\* Processor::chargeback leaving the record's dispute status as it was
chargeback_keeps_status(p, transaction_id, client_id) ==
    LET found == get_transaction_and_client(p, transaction_id) IN
    IF found # Ok THEN [p |-> p, result |-> found]
    ELSE
    LET transaction == p.transactions_by_id[transaction_id]
        owner == transaction.client_id
        owns  == check_client_owns_transaction(client_id, transaction)
        valid == validate_dispute_status_transition(transaction, "ChargedBack")
    IN  IF owns # Ok THEN [p |-> p, result |-> owns]
        ELSE IF valid # Ok THEN [p |-> p, result |-> valid]
        ELSE [p |-> [p EXCEPT
                       !.clients_by_id[owner] =
                           Client_chargeback(@, chargeback_amount(transaction))],
              result |-> Ok]

\* Processor::chargeback
chargeback(p, transaction_id, client_id) ==
    LET found == get_transaction_and_client(p, transaction_id) IN
    IF found # Ok THEN [p |-> p, result |-> found]
    ELSE
    LET transaction == p.transactions_by_id[transaction_id]
        owner == transaction.client_id
        owns  == check_client_owns_transaction(client_id, transaction)
        valid == validate_dispute_status_transition(transaction, "ChargedBack")
    IN  IF owns # Ok THEN [p |-> p, result |-> owns]
        ELSE IF valid # Ok THEN [p |-> p, result |-> valid]
        ELSE [p |-> [p EXCEPT
                       !.clients_by_id[owner] =
                           Client_chargeback(@, chargeback_amount(transaction)),
                       !.transactions_by_id[transaction_id] =
                           set_dispute_status(@, "ChargedBack")],
              result |-> Ok]

\* Processor::process_event
process_event(p, e) ==
    IF e.type = "Transaction"
    THEN IF e.kind = "Deposit"
         THEN deposit(p, e.transaction_id, e.client_id, e.amount)
         ELSE withdraw(p, e.transaction_id, e.client_id, e.amount)
    ELSE IF e.kind = "Dispute" THEN dispute(p, e.transaction_id, e.client_id)
    ELSE IF e.kind = "Resolve" THEN resolve(p, e.transaction_id, e.client_id)
    ELSE chargeback(p, e.transaction_id, e.client_id)

\* ------------------------------------------------------------ report
\* clients_by_id.into_iter(): a HashMap yields its entries in some order
IterationOrders(clients) ==
    {order \in [1..Cardinality(DOMAIN clients) -> DOMAIN clients] :
        \A i, j \in DOMAIN order : i # j => order[i] # order[j]}

\* `entries`: the (ClientID, Client) pairs collected in that order
collect(clients, order) ==
    [i \in DOMAIN order |-> [client_id |-> order[i], client |-> clients[order[i]]]]

\* convert_to_csv_clients without entries.sort_by
unsorted(entries) == entries

\* entries.sort_by(|(a, _), (b, _)| a.cmp(b)): the least key first, then the
\* rest sorted (the keys of a map are distinct)
RECURSIVE sort_by_client_id(_)
sort_by_client_id(entries) ==
    IF entries = <<>> THEN <<>>
    ELSE LET least == CHOOSE i \in DOMAIN entries :
                         \A j \in DOMAIN entries :
                            entries[i].client_id <= entries[j].client_id
             rest == [k \in 1..(Len(entries) - 1) |->
                         IF k < least THEN entries[k] ELSE entries[k + 1]]
         IN  <<entries[least]>> \o sort_by_client_id(rest)

\* csv_client_from_client
csv_client_from_client(client_id, client) ==
    [client |-> client_id, available |-> available(client),
     held |-> client.held, total |-> client.total, locked |-> client.locked]

\* convert_to_csv_clients
convert_to_csv_clients(clients, order) ==
    LET entries == sort_by_client_id(collect(clients, order)) IN
    [i \in DOMAIN entries |->
        csv_client_from_client(entries[i].client_id, entries[i].client)]

\* write_report with a writer that takes every row: the rows serialized, in
\* order (the header line is not modelled)
write_report(clients, order) == convert_to_csv_clients(clients, order)

\* ------------------------------------------------------------ state
VARIABLES
    clients_by_id,            \* Processor.clients_by_id
    transactions_by_id,       \* Processor.transactions_by_id
    error_logger,             \* the lines written to error_logger so far
    event,                    \* the loop's `event`: the item taken last
    result,                   \* what process_event returned for it
    prev_clients_by_id,       \* history: clients_by_id when `event` was taken
    prev_transactions_by_id,  \* history: transactions_by_id at that moment
    refused,                  \* history: kind and id of each deposit/withdrawal
                              \*   that Client::deposit/withdraw turned down
    processed,                \* how many feed items the loop has consumed
    pc,                       \* where process_events and run_aux stand
    returned,                 \* the value process_events returned
    output                    \* the rows write_report wrote to `output`

vars == <<clients_by_id, transactions_by_id, error_logger, event, result,
          prev_clients_by_id, prev_transactions_by_id, refused, processed, pc,
          returned, output>>

\* No event in hand: before the first item and after the loop.
NoEvent == [type |-> "None"]

\* process_events has not returned.
NoReturn == [kind |-> "None", clients |-> EmptyMap]

\* The Processor value held in the variables.
processor == [clients_by_id |-> clients_by_id,
              transactions_by_id |-> transactions_by_id]

\* process_events, `let mut processor = Processor::new()`
Init ==
    /\ clients_by_id = Processor_new.clients_by_id
    /\ transactions_by_id = Processor_new.transactions_by_id
    /\ error_logger = <<>>
    /\ event = NoEvent
    /\ result = Ok
    /\ prev_clients_by_id = EmptyMap
    /\ prev_transactions_by_id = EmptyMap
    /\ refused = {}
    /\ processed = 0
    /\ pc = "loop"
    /\ returned = NoReturn
    /\ output = <<>>

\* The feeds explored: at most MaxEvents items, at most MaxErrors of them
\* rejected.
FeedAllows(r) ==
    /\ processed < MaxEvents
    /\ r # Ok => Len(error_logger) < MaxErrors

\* The loop writing a line for every event, accepted or not
ProcessEvent_logs_every_event(e) ==
    /\ pc = "loop"
    /\ LET out == process_event(processor, e) IN
       /\ FeedAllows(out.result)
       /\ clients_by_id' = out.p.clients_by_id
       /\ transactions_by_id' = out.p.transactions_by_id
       /\ result' = out.result
       /\ error_logger' = Append(error_logger, out.result)
       /\ refused' = IF out.result.msg \in LedgerErrors
                     THEN refused \cup {[kind |-> e.kind,
                                         transaction_id |-> e.transaction_id]}
                     ELSE refused
    /\ event' = e
    /\ prev_clients_by_id' = clients_by_id
    /\ prev_transactions_by_id' = transactions_by_id
    /\ processed' = processed + 1
    /\ UNCHANGED <<pc, returned, output>>

\* One turn of the for loop whose item is Ok(e) and which runs to its end:
\* process_event(e), and the line written to error_logger when it is Err.
ProcessEvent(e) ==
    /\ pc = "loop"
    /\ LET out == process_event(processor, e) IN
       /\ FeedAllows(out.result)
       /\ clients_by_id' = out.p.clients_by_id
       /\ transactions_by_id' = out.p.transactions_by_id
       /\ result' = out.result
       /\ error_logger' = IF out.result # Ok
                          THEN Append(error_logger, out.result)
                          ELSE error_logger
       /\ refused' = IF out.result.msg \in LedgerErrors
                     THEN refused \cup {[kind |-> e.kind,
                                         transaction_id |-> e.transaction_id]}
                     ELSE refused
    /\ event' = e
    /\ prev_clients_by_id' = clients_by_id
    /\ prev_transactions_by_id' = transactions_by_id
    /\ processed' = processed + 1
    /\ UNCHANGED <<pc, returned, output>>

\* Leaving process_events: the locals `event` and `processor` are gone; the
\* client map survives only if it was moved into the return value.
Leave(kind, clients) ==
    /\ pc' = "returned"
    /\ returned' = [kind |-> kind, clients |-> clients]
    /\ clients_by_id' = EmptyMap
    /\ transactions_by_id' = EmptyMap
    /\ event' = NoEvent
    /\ result' = Ok
    /\ prev_clients_by_id' = EmptyMap
    /\ prev_transactions_by_id' = EmptyMap
    /\ refused' = {}
    /\ UNCHANGED output

\* One turn of the loop in which the event is rejected and
\* error_logger.write_all fails: `?` returns the io error.
SinkFails(e) ==
    /\ pc = "loop"
    /\ LET out == process_event(processor, e) IN
       /\ FeedAllows(out.result)
       /\ out.result # Ok
    /\ processed' = processed + 1
    /\ Leave("ErrSink", EmptyMap)
    /\ UNCHANGED error_logger

\* `event?` returning the clients collected so far beside the error
FeedFails_keeps_clients ==
    /\ pc = "loop"
    /\ processed < MaxEvents
    /\ processed' = processed + 1
    /\ Leave("ErrFeed", clients_by_id)
    /\ UNCHANGED error_logger

\* The feed yields Err: `event?` returns it from process_events.
FeedFails ==
    /\ pc = "loop"
    /\ processed < MaxEvents
    /\ processed' = processed + 1
    /\ Leave("ErrFeed", EmptyMap)
    /\ UNCHANGED error_logger

\* The feed is exhausted: Ok(processor.clients_by_id())
FeedEnds ==
    /\ pc = "loop"
    /\ Leave("Ok", clients_by_id)
    /\ UNCHANGED <<error_logger, processed>>

\* run_aux after process_events returned Ok(final_state): write_report
\* writes the rows and run_aux returns Ok(()).
WriteReport(order) ==
    /\ pc = "returned"
    /\ returned.kind = "Ok"
    /\ output' = output \o write_report(returned.clients, order)
    /\ pc' = "reported"
    /\ UNCHANGED <<clients_by_id, transactions_by_id, error_logger, event,
                   result, prev_clients_by_id, prev_transactions_by_id,
                   refused, processed, returned>>

\* run_aux going on to write_report although process_events returned Err
RunAux_reports_anyway ==
    /\ pc = "returned"
    /\ returned.kind # "Ok"
    /\ output' = output \o write_report(returned.clients, <<>>)
    /\ pc' = "reported"
    /\ UNCHANGED <<clients_by_id, transactions_by_id, error_logger, event,
                   result, prev_clients_by_id, prev_transactions_by_id,
                   refused, processed, returned>>

\* run_aux after process_events returned Err: `?` returns it at once.
RunAuxFails ==
    /\ pc = "returned"
    /\ returned.kind # "Ok"
    /\ pc' = "failed"
    /\ UNCHANGED <<clients_by_id, transactions_by_id, error_logger, event,
                   result, prev_clients_by_id, prev_transactions_by_id,
                   refused, processed, returned, output>>

\* The next item of the feed is any event (the amounts are tried from the
\* largest down), an Err, or the end of the feed; then the caller goes on.
Next ==
    \/ \E i \in 0..(MaxAmount + MaxDebit) :
          \E e \in TransactionEvents({MaxAmount - i}) : ProcessEvent(e)
    \/ \E e \in DisputeStepEvents : ProcessEvent(e)
    \/ \E e \in Event : SinkFails(e)
    \/ FeedFails
    \/ FeedEnds
    \/ \E order \in IterationOrders(returned.clients) : WriteReport(order)
    \/ RunAuxFails

Spec == Init /\ [][Next]_vars

\* ------------------------------------------------------------ typing
TypeOK ==
    /\ DOMAIN clients_by_id \subseteq ClientIDs
    /\ DOMAIN transactions_by_id \subseteq TransactionIDs
    /\ \A c \in DOMAIN clients_by_id : clients_by_id[c].locked \in BOOLEAN
    /\ \A t \in DOMAIN transactions_by_id :
          /\ transactions_by_id[t].kind \in TransactionKind
          /\ transactions_by_id[t].dispute_status \in DisputeStatus
    /\ processed \in 0..MaxEvents
    /\ pc \in {"loop", "returned", "reported", "failed"}
    /\ Len(output) <= MaxClient

\* ------------------------------------------------------------ vocabulary
\* An event has just been processed by the loop.
Stepped == event.type # "None"

Accepted == Stepped /\ result = Ok

Rejected == Stepped /\ result # Ok

IsTransaction(kind) == event.type = "Transaction" /\ event.kind = kind

IsDisputeStep(kind) == event.type = "DisputeStep" /\ event.kind = kind

\* Nothing in the two maps differs from what it was before the event.
NothingChanged ==
    /\ clients_by_id = prev_clients_by_id
    /\ transactions_by_id = prev_transactions_by_id

\* The ledger of client c before the event; a client not seen yet has the
\* ledger it would be created with.
LedgerBefore(c) ==
    IF c \in DOMAIN prev_clients_by_id THEN prev_clients_by_id[c]
    ELSE [held |-> 0, total |-> 0, locked |-> FALSE]

\* The ledger of client c after the event, likewise.
LedgerAfter(c) ==
    IF c \in DOMAIN clients_by_id THEN clients_by_id[c]
    ELSE [held |-> 0, total |-> 0, locked |-> FALSE]

\* The legal transitions of section 4.2: the status a dispute step needs.
LegalFrom(kind) == IF kind = "Dispute" THEN "None" ELSE "Pending"

\* The status a dispute step leads to.
LeadsTo(kind) ==
    IF kind = "Dispute" THEN "Pending"
    ELSE IF kind = "Resolve" THEN "None" ELSE "ChargedBack"

\* The error of an illegal transition out of status old.
TransitionError(old) ==
    IF old = "ChargedBack" THEN ERR_CHARGED_BACK
    ELSE IF old = "None" THEN ERR_NOT_DISPUTED ELSE ERR_ALREADY_DISPUTED

\* ------------------------------------------------------------ C1
\* C1: in every step of process_event a transaction's dispute_status changes
\* only along None -> Pending (accepted dispute), Pending -> None (accepted
\* resolve) or Pending -> ChargedBack (accepted chargeback) of that very
\* transaction, and a newly created transaction starts at None.
C1_StatusChangesOnlyAlongLegalEdges ==
    Stepped =>
      \A t \in DOMAIN transactions_by_id :
        IF t \in DOMAIN prev_transactions_by_id
        THEN LET old == prev_transactions_by_id[t].dispute_status
                 new == transactions_by_id[t].dispute_status
             IN  \/ new = old
                 \/ /\ result = Ok
                    /\ event.type = "DisputeStep"
                    /\ event.transaction_id = t
                    /\ \/ old = "None" /\ new = "Pending" /\ event.kind = "Dispute"
                       \/ old = "Pending" /\ new = "None" /\ event.kind = "Resolve"
                       \/ old = "Pending" /\ new = "ChargedBack"
                            /\ event.kind = "Chargeback"
        ELSE transactions_by_id[t].dispute_status = "None"

\* A chargeback has just moved a transaction from Pending to ChargedBack.
C1_Witness ==
    /\ Accepted
    /\ IsDisputeStep("Chargeback")
    /\ prev_transactions_by_id[event.transaction_id].dispute_status = "Pending"
    /\ transactions_by_id[event.transaction_id].dispute_status = "ChargedBack"

\* ------------------------------------------------------------ C2
\* C2: a dispute step that is illegal for the transaction's status is
\* rejected and changes nothing; and for every dispute step on a recorded
\* transaction either the status and the owner's balances both change as the
\* step prescribes (result Ok), or the event is rejected and neither does.
C2_IllegalStepChangesNothing ==
    (Stepped /\ event.type = "DisputeStep"
             /\ event.transaction_id \in DOMAIN prev_transactions_by_id) =>
      LET t == event.transaction_id
          before == prev_transactions_by_id[t]
          old == before.dispute_status
          o == before.client_id
          dheld == clients_by_id[o].held - prev_clients_by_id[o].held
          dtotal == clients_by_id[o].total - prev_clients_by_id[o].total
      IN  /\ old # LegalFrom(event.kind) => Rejected /\ NothingChanged
          /\ \/ /\ result = Ok
                /\ transactions_by_id[t].dispute_status = LeadsTo(event.kind)
                /\ dheld \in {before.amount, 0 - before.amount}
                /\ IF event.kind = "Chargeback"
                   THEN dtotal = dheld /\ clients_by_id[o].locked
                   ELSE dtotal = 0
             \/ /\ result # Ok
                /\ NothingChanged

\* A dispute of an already disputed transaction has just been rejected.
C2_Witness ==
    /\ Rejected
    /\ IsDisputeStep("Dispute")
    /\ event.transaction_id \in DOMAIN prev_transactions_by_id
    /\ prev_transactions_by_id[event.transaction_id].dispute_status = "Pending"
    /\ prev_transactions_by_id[event.transaction_id].amount # 0
    /\ result = Err(ERR_ALREADY_DISPUTED, <<>>)

\* ------------------------------------------------------------ C3
\* C3 as stated: an event that process_event rejects leaves the client map
\* (its ids and every ledger) and the transaction map as they were.
C3_RejectedEventIsNoOp == Rejected => NothingChanged

\* C3, amended: a rejected event leaves the transaction map and the ledger of
\* every client already in the map as they were; the only entry it can add
\* to the client map is the client named by a withdrawal rejected for
\* insufficient funds, entered with held 0, total 0 and locked false.
C3_RejectedEventChangesNoLedger ==
    Rejected =>
      /\ transactions_by_id = prev_transactions_by_id
      /\ \A c \in DOMAIN prev_clients_by_id :
            c \in DOMAIN clients_by_id /\ clients_by_id[c] = prev_clients_by_id[c]
      /\ \A c \in (DOMAIN clients_by_id) \ (DOMAIN prev_clients_by_id) :
            /\ IsTransaction("Withdrawal")
            /\ event.client_id = c
            /\ result = Err(ERR_INSUFFICIENT, <<>>)
            /\ clients_by_id[c] = [held |-> 0, total |-> 0, locked |-> FALSE]

\* A withdrawal naming a new client has just been rejected while another
\* client holds money.
C3_Witness ==
    /\ Rejected
    /\ IsTransaction("Withdrawal")
    /\ event.client_id \notin DOMAIN prev_clients_by_id
    /\ event.client_id \in DOMAIN clients_by_id
    /\ \E c \in DOMAIN prev_clients_by_id : prev_clients_by_id[c].total > 0

\* ------------------------------------------------------------ C4
\* C4: a dispute step is decided in the order lookup, ownership, transition,
\* mutation: an unrecorded id gives the not-found error; else a client_id
\* other than the owner gives the mismatch error naming both ids, whatever
\* the status; else an illegal transition gives its error; and each of the
\* three leaves both maps as they were. Otherwise the step is accepted.
C4_ChecksRunInOrder ==
    (Stepped /\ event.type = "DisputeStep") =>
      LET t == event.transaction_id IN
      IF t \notin DOMAIN prev_transactions_by_id
      THEN result = Err(ERR_NOT_FOUND, <<t>>) /\ NothingChanged
      ELSE LET o == prev_transactions_by_id[t].client_id
               old == prev_transactions_by_id[t].dispute_status
           IN  IF event.client_id # o
               THEN /\ result = Err(ERR_MISMATCH, <<event.client_id, o>>)
                    /\ NothingChanged
               ELSE IF old # LegalFrom(event.kind)
               THEN /\ result = Err(TransitionError(old), <<>>)
                    /\ NothingChanged
               ELSE result = Ok

\* A chargeback by the wrong client of a transaction that is not disputed
\* either has just been rejected.
C4_Witness ==
    /\ Rejected
    /\ IsDisputeStep("Chargeback")
    /\ event.transaction_id \in DOMAIN prev_transactions_by_id
    /\ prev_transactions_by_id[event.transaction_id].client_id # event.client_id
    /\ prev_transactions_by_id[event.transaction_id].dispute_status = "None"
    /\ result.msg = ERR_MISMATCH

\* ------------------------------------------------------------ C5
\* What C5 and its amendment share: an accepted chargeback leaves the owner
\* locked, and a locked client stays in the map and stays locked.
C5_LockIsPermanent ==
    /\ (Accepted /\ IsDisputeStep("Chargeback")) =>
          clients_by_id[prev_transactions_by_id[event.transaction_id].client_id].locked
    /\ Stepped =>
          \A c \in DOMAIN prev_clients_by_id :
             prev_clients_by_id[c].locked =>
                c \in DOMAIN clients_by_id /\ clients_by_id[c].locked

\* The account-locked error of a deposit or withdrawal.
LockedError(kind) ==
    Err(IF kind = "Deposit" THEN ERR_DEPOSIT_LOCKED ELSE ERR_WITHDRAW_LOCKED, <<>>)

\* C5 as stated: once a chargeback was accepted for a client the client is
\* locked for good, and every later deposit or withdrawal naming the client
\* fails with the account-locked error and leaves total and held unchanged.
C5_LockedClientRefusesWithLockedError ==
    /\ C5_LockIsPermanent
    /\ (Stepped /\ event.type = "Transaction"
                /\ LedgerBefore(event.client_id).locked) =>
          /\ result = LockedError(event.kind)
          /\ LedgerAfter(event.client_id) = LedgerBefore(event.client_id)

\* C5, amended: ... every later deposit or withdrawal naming the client
\* fails and leaves total and held unchanged: with the account-locked error
\* when its transaction_id is not recorded yet, with the duplicate-transaction
\* error when it is.
C5_LockedClientRefuses ==
    /\ C5_LockIsPermanent
    /\ (Stepped /\ event.type = "Transaction"
                /\ LedgerBefore(event.client_id).locked) =>
          /\ result =
               IF event.transaction_id \in DOMAIN prev_transactions_by_id
               THEN Err(ERR_EXISTS, <<event.transaction_id>>)
               ELSE LockedError(event.kind)
          /\ LedgerAfter(event.client_id) = LedgerBefore(event.client_id)

\* A deposit with a fresh id to a client locked by a chargeback has just been
\* rejected.
C5_Witness ==
    /\ Stepped
    /\ IsTransaction("Deposit")
    /\ LedgerBefore(event.client_id).locked
    /\ \E t \in DOMAIN transactions_by_id :
          /\ transactions_by_id[t].client_id = event.client_id
          /\ transactions_by_id[t].dispute_status = "ChargedBack"
    /\ result = Err(ERR_DEPOSIT_LOCKED, <<>>)

\* ------------------------------------------------------------ C6
\* C6 as stated: a withdrawal whose amount exceeds the client's available at
\* that moment is rejected with the insufficient-funds error and leaves the
\* client's total unchanged.
C6_OverdraftGetsInsufficientFunds ==
    (Stepped /\ IsTransaction("Withdrawal")
             /\ event.amount > available(LedgerBefore(event.client_id))) =>
       /\ result = Err(ERR_INSUFFICIENT, <<>>)
       /\ LedgerAfter(event.client_id).total = LedgerBefore(event.client_id).total

\* C6, amended: such a withdrawal is never accepted and leaves the client's
\* total unchanged; the error is insufficient funds when the transaction_id
\* is not recorded yet and the client is not locked, the duplicate-transaction
\* or account-locked error otherwise.
C6_OverdraftIsNeverAccepted ==
    (Stepped /\ IsTransaction("Withdrawal")
             /\ event.amount > available(LedgerBefore(event.client_id))) =>
       /\ result =
            IF event.transaction_id \in DOMAIN prev_transactions_by_id
            THEN Err(ERR_EXISTS, <<event.transaction_id>>)
            ELSE IF LedgerBefore(event.client_id).locked
            THEN Err(ERR_WITHDRAW_LOCKED, <<>>)
            ELSE Err(ERR_INSUFFICIENT, <<>>)
       /\ LedgerAfter(event.client_id).total = LedgerBefore(event.client_id).total

\* A withdrawal of no more than total but more than available has just been
\* rejected.
C6_Witness ==
    /\ Stepped
    /\ IsTransaction("Withdrawal")
    /\ event.amount > available(LedgerBefore(event.client_id))
    /\ event.amount <= LedgerBefore(event.client_id).total
    /\ result = Err(ERR_INSUFFICIENT, <<>>)

\* ------------------------------------------------------------ C7
\* A withdrawal that Client::withdraw rejects creates no Transaction record.
C7_RefusedWithdrawalLeavesNoRecord ==
    (Stepped /\ IsTransaction("Withdrawal")
             /\ result.msg \in {ERR_INSUFFICIENT, ERR_WITHDRAW_LOCKED}) =>
       transactions_by_id = prev_transactions_by_id

\* The withdrawal carrying id t was rejected by the ledger earlier in the run.
WithdrawalRefused(t) == [kind |-> "Withdrawal", transaction_id |-> t] \in refused

\* C7 as stated: a rejected withdrawal creates no record, and any later
\* dispute against its transaction_id fails with the not-found error.
C7_LaterDisputeIsNotFound ==
    /\ C7_RefusedWithdrawalLeavesNoRecord
    /\ (Stepped /\ IsDisputeStep("Dispute")
                /\ WithdrawalRefused(event.transaction_id)) =>
          result = Err(ERR_NOT_FOUND, <<event.transaction_id>>)

\* C7, amended: a rejected withdrawal creates no record, and a later dispute
\* against its transaction_id fails with the not-found error and changes
\* nothing as long as no deposit or withdrawal carrying that id has been
\* accepted since.
C7_LaterDisputeIsNotFoundWhileUnrecorded ==
    /\ C7_RefusedWithdrawalLeavesNoRecord
    /\ (Stepped /\ IsDisputeStep("Dispute")
                /\ WithdrawalRefused(event.transaction_id)
                /\ event.transaction_id \notin DOMAIN prev_transactions_by_id) =>
          /\ result = Err(ERR_NOT_FOUND, <<event.transaction_id>>)
          /\ NothingChanged

\* The id of a withdrawal rejected for insufficient funds has just been
\* disputed by the same client.
C7_Witness ==
    /\ Rejected
    /\ IsDisputeStep("Dispute")
    /\ WithdrawalRefused(event.transaction_id)
    /\ event.client_id \in DOMAIN clients_by_id
    /\ error_logger = <<Err(ERR_INSUFFICIENT, <<>>),
                        Err(ERR_NOT_FOUND, <<event.transaction_id>>)>>

\* ------------------------------------------------------------ C8
\* An existing record is never removed and never overwritten by a deposit or
\* withdrawal: the event is rejected with the duplicate-transaction error and
\* changes nothing.
C8_RecordedIdIsRejected ==
    (Stepped /\ event.type = "Transaction"
             /\ event.transaction_id \in DOMAIN prev_transactions_by_id) =>
       /\ result = Err(ERR_EXISTS, <<event.transaction_id>>)
       /\ NothingChanged

\* C8 as stated: of two deposit/withdrawal events carrying the same id the
\* first creates the record and the other is rejected; so an accepted
\* deposit or withdrawal is the first event of the run with its id.
C8_FirstEventCreatesTheRecord ==
    /\ C8_RecordedIdIsRejected
    /\ (Accepted /\ event.type = "Transaction") =>
          \A k \in TransactionKind :
             [kind |-> k, transaction_id |-> event.transaction_id] \notin refused

\* C8, amended: once a deposit or withdrawal with a transaction_id has been
\* accepted, every later deposit or withdrawal carrying that id is rejected
\* with the duplicate-transaction error, and the record keeps the client,
\* amount and kind of the first accepted event; events with that id that
\* were rejected before create no record and do not use up the id.
C8_FirstAcceptedEventCreatesTheRecord ==
    /\ C8_RecordedIdIsRejected
    /\ Stepped =>
         \A t \in DOMAIN prev_transactions_by_id :
            /\ t \in DOMAIN transactions_by_id
            /\ transactions_by_id[t].client_id = prev_transactions_by_id[t].client_id
            /\ transactions_by_id[t].amount = prev_transactions_by_id[t].amount
            /\ transactions_by_id[t].kind = prev_transactions_by_id[t].kind
    /\ (Accepted /\ event.type = "Transaction") =>
          /\ event.transaction_id \notin DOMAIN prev_transactions_by_id
          /\ transactions_by_id[event.transaction_id] =
                [client_id |-> event.client_id, amount |-> event.amount,
                 kind |-> event.kind, dispute_status |-> "None"]

\* A withdrawal reusing the id of a recorded deposit of another client has
\* just been rejected.
C8_Witness ==
    /\ Rejected
    /\ IsTransaction("Withdrawal")
    /\ event.transaction_id \in DOMAIN prev_transactions_by_id
    /\ prev_transactions_by_id[event.transaction_id].kind = "Deposit"
    /\ prev_transactions_by_id[event.transaction_id].client_id # event.client_id
    /\ result = Err(ERR_EXISTS, <<event.transaction_id>>)

C10_Scenario(c, d, w, A) ==
    /\ processed = 3
    /\ Accepted
    /\ event = [type |-> "DisputeStep", kind |-> "Dispute",
                transaction_id |-> w, client_id |-> c]
    /\ d # w
    /\ DOMAIN transactions_by_id = {d, w}
    /\ transactions_by_id[d] = [client_id |-> c, amount |-> A,
                                kind |-> "Deposit", dispute_status |-> "None"]
    /\ transactions_by_id[w] = [client_id |-> c, amount |-> A,
                                kind |-> "Withdrawal", dispute_status |-> "Pending"]

\* C10: after deposit A, an accepted withdrawal A and an accepted dispute of
\* that withdrawal, all of one client, the client has held = A, total = 0,
\* locked = false and nothing was logged; and every accepted dispute of a
\* withdrawal raises the owner's held by the withdrawal's amount.
C10_DisputedWithdrawalRaisesHeld ==
    /\ \A c \in ClientIDs, d \in TransactionIDs, w \in TransactionIDs, A \in Amounts :
          C10_Scenario(c, d, w, A) =>
             /\ clients_by_id[c] = [held |-> A, total |-> 0, locked |-> FALSE]
             /\ error_logger = <<>>
    /\ (Accepted /\ IsDisputeStep("Dispute")
          /\ prev_transactions_by_id[event.transaction_id].kind = "Withdrawal") =>
          LET before == prev_transactions_by_id[event.transaction_id] IN
          clients_by_id[before.client_id].held =
             prev_clients_by_id[before.client_id].held + before.amount

\* ------------------------------------------------------------ C11
\* The dispute step of kind k that client c sends for transaction t.
DisputeStep(k, t, c) ==
    [type |-> "DisputeStep", kind |-> k, transaction_id |-> t, client_id |-> c]

\* The whole run so far is deposit(c, d, A), withdrawal(c, w, B),
\* dispute(c, w) and resolve(c, w), all accepted, the resolve last
\* (test_successful_resolved_withdrawal_dispute).
C11_Scenario(c, d, w, A, B) ==
    /\ processed = 4
    /\ error_logger = <<>>
    /\ Accepted
    /\ event = DisputeStep("Resolve", w, c)
    /\ d # w
    /\ DOMAIN transactions_by_id = {d, w}
    /\ transactions_by_id[d] = [client_id |-> c, amount |-> A,
                                kind |-> "Deposit", dispute_status |-> "None"]
    /\ transactions_by_id[w] = [client_id |-> c, amount |-> B,
                                kind |-> "Withdrawal", dispute_status |-> "None"]
    /\ prev_transactions_by_id[d].dispute_status = "None"

\* C11: a dispute directly followed by a resolve of the same transaction is a
\* round trip.  From every reachable state in which a transaction is None
\* (Undisputed), an accepted dispute and then an accepted resolve of it leave
\* the owner's held, total and locked and the transaction's status as they
\* were before the dispute, for deposits and for withdrawals; every accepted
\* resolve takes back exactly what the dispute of that kind added to held;
\* and deposit A, withdrawal B, dispute and resolve of the withdrawal end
\* with held 0, total A - B, unlocked.
C11_DisputeThenResolveIsRoundTrip ==
    /\ pc = "loop" =>
          \A t \in DOMAIN transactions_by_id : \A c \in ClientIDs :
             transactions_by_id[t].dispute_status = "None" =>
                LET o == transactions_by_id[t].client_id
                    d == process_event(processor, DisputeStep("Dispute", t, c))
                    r == process_event(d.p, DisputeStep("Resolve", t, c))
                IN  (d.result = Ok /\ r.result = Ok) =>
                       /\ r.p.clients_by_id[o] = clients_by_id[o]
                       /\ r.p.transactions_by_id[t] = transactions_by_id[t]
                       /\ d.p.transactions_by_id[t].dispute_status = "Pending"
    /\ (Accepted /\ IsDisputeStep("Resolve")) =>
          LET t == event.transaction_id
              before == prev_transactions_by_id[t]
              o == before.client_id
          IN  /\ before.dispute_status = "Pending"
              /\ transactions_by_id[t] = [before EXCEPT !.dispute_status = "None"]
              /\ clients_by_id[o] =
                    [prev_clients_by_id[o] EXCEPT
                        !.held = @ - dispute_hold_amount(before)]
    /\ \A c \in ClientIDs, d \in TransactionIDs, w \in TransactionIDs,
          A \in Amounts, B \in Amounts :
          C11_Scenario(c, d, w, A, B) =>
             clients_by_id[c] = [held |-> 0, total |-> A - B, locked |-> FALSE]

\* A withdrawal of a positive amount was disputed and the dispute has just
\* been resolved, both accepted, with nothing in between.
C11_Witness ==
    \E c \in ClientIDs, d \in TransactionIDs, w \in TransactionIDs :
       /\ C11_Scenario(c, d, w, 1, 1)
       /\ prev_transactions_by_id[w].dispute_status = "Pending"
       /\ prev_clients_by_id[c].held = 0 - 1
       /\ clients_by_id[c].held = 0

\* ------------------------------------------------------------ C12
\* The whole run so far is deposit(c, d, A), dispute(c, d) and
\* chargeback(c, d), all accepted (section 8 of the specification).
C12_DepositScenario(c, d, A) ==
    /\ processed = 3
    /\ Accepted
    /\ event = DisputeStep("Chargeback", d, c)
    /\ DOMAIN transactions_by_id = {d}
    /\ transactions_by_id[d] = [client_id |-> c, amount |-> A,
                                kind |-> "Deposit",
                                dispute_status |-> "ChargedBack"]

\* The whole run so far is deposit(c, d, A), withdrawal(c, w, B),
\* dispute(c, w) and chargeback(c, w), all accepted, the chargeback last
\* (test_successful_withdrawal_chargeback).
C12_WithdrawalScenario(c, d, w, A, B) ==
    /\ processed = 4
    /\ Accepted
    /\ event = DisputeStep("Chargeback", w, c)
    /\ d # w
    /\ DOMAIN transactions_by_id = {d, w}
    /\ transactions_by_id[d] = [client_id |-> c, amount |-> A,
                                kind |-> "Deposit", dispute_status |-> "None"]
    /\ transactions_by_id[w] = [client_id |-> c, amount |-> B,
                                kind |-> "Withdrawal",
                                dispute_status |-> "ChargedBack"]
    /\ prev_transactions_by_id[d].dispute_status = "None"

\* C12: an accepted chargeback sets the transaction to ChargedBack and locks
\* the owner; for a deposit of amount A it lowers the owner's held and total
\* by A, for a withdrawal of amount A it raises both by A; nothing else
\* changes.  Deposit, dispute, chargeback on one client end with held 0,
\* total 0, locked and no error; deposit A, withdrawal B, dispute and
\* chargeback of the withdrawal end with held 0, total A, locked.
C12_ChargebackReversesAndLocks ==
    /\ (Accepted /\ IsDisputeStep("Chargeback")) =>
          LET t == event.transaction_id
              before == prev_transactions_by_id[t]
              o == before.client_id
              A == before.amount
          IN  /\ transactions_by_id =
                    [prev_transactions_by_id EXCEPT
                        ![t].dispute_status = "ChargedBack"]
              /\ DOMAIN clients_by_id = DOMAIN prev_clients_by_id
              /\ clients_by_id[o].locked
              /\ before.kind = "Deposit" =>
                    /\ clients_by_id[o].held = prev_clients_by_id[o].held - A
                    /\ clients_by_id[o].total = prev_clients_by_id[o].total - A
              /\ before.kind = "Withdrawal" =>
                    /\ clients_by_id[o].held = prev_clients_by_id[o].held + A
                    /\ clients_by_id[o].total = prev_clients_by_id[o].total + A
              /\ \A c \in DOMAIN clients_by_id :
                    c # o => clients_by_id[c] = prev_clients_by_id[c]
    /\ \A c \in ClientIDs, d \in TransactionIDs, A \in Amounts :
          C12_DepositScenario(c, d, A) =>
             /\ clients_by_id[c] = [held |-> 0, total |-> 0, locked |-> TRUE]
             /\ error_logger = <<>>
    /\ \A c \in ClientIDs, d \in TransactionIDs, w \in TransactionIDs,
          A \in Amounts, B \in Amounts :
          C12_WithdrawalScenario(c, d, w, A, B) =>
             clients_by_id[c] = [held |-> 0, total |-> A, locked |-> TRUE]

\* The chargeback of a disputed withdrawal of a positive amount has just been
\* accepted and has locked a client that was not locked.
C12_Witness ==
    \E c \in ClientIDs, d \in TransactionIDs, w \in TransactionIDs :
       /\ C12_WithdrawalScenario(c, d, w, 1, 1)
       /\ prev_clients_by_id[c] = [held |-> 0 - 1, total |-> 0, locked |-> FALSE]
       /\ clients_by_id[c] = [held |-> 0, total |-> 1, locked |-> TRUE]

\* ------------------------------------------------------------ C13
\* The whole run so far is deposit(c, d, A), dispute(c, d), resolve(c, d)
\* and dispute(c, d), with nothing logged
\* (test_successful_disputed_deposit_after_resolved).
C13_Scenario(c, d, A) ==
    /\ processed = 4
    /\ error_logger = <<>>
    /\ Accepted
    /\ event = DisputeStep("Dispute", d, c)
    /\ DOMAIN transactions_by_id = {d}
    /\ transactions_by_id[d] = [client_id |-> c, amount |-> A,
                                kind |-> "Deposit", dispute_status |-> "Pending"]

\* C13: from every reachable state in which a transaction is None
\* (Undisputed), dispute, resolve, dispute of it by its owner, with nothing in
\* between, are accepted all three, and the owner's held after the second
\* dispute equals its held after the first; after deposit A, dispute,
\* resolve, dispute the client has held A, total A and is not locked.
C13_DisputeResolveDisputeIsAccepted ==
    /\ pc = "loop" =>
          \A t \in DOMAIN transactions_by_id :
             transactions_by_id[t].dispute_status = "None" =>
                LET o == transactions_by_id[t].client_id
                    first  == process_event(processor, DisputeStep("Dispute", t, o))
                    solved == process_event(first.p, DisputeStep("Resolve", t, o))
                    second == process_event(solved.p, DisputeStep("Dispute", t, o))
                IN  /\ first.result = Ok
                    /\ solved.result = Ok
                    /\ second.result = Ok
                    /\ second.p.clients_by_id[o].held = first.p.clients_by_id[o].held
    /\ \A c \in ClientIDs, d \in TransactionIDs, A \in Amounts :
          C13_Scenario(c, d, A) =>
             clients_by_id[c] = [held |-> A, total |-> A, locked |-> FALSE]

\* A deposit of a positive amount has been disputed, resolved and disputed
\* again: the second dispute has just raised held from 0 to the amount.
C13_Witness ==
    \E c \in ClientIDs, d \in TransactionIDs :
       /\ C13_Scenario(c, d, 1)
       /\ prev_transactions_by_id[d].dispute_status = "None"
       /\ prev_clients_by_id[c].held = 0
       /\ clients_by_id[c].held = 1

\* ------------------------------------------------------------ C14
\* The event is a dispute step of that kind on a recorded transaction whose
\* status is None: never disputed, or disputed and then resolved.
C14_StepOnUndisputed(kind) ==
    /\ Stepped
    /\ IsDisputeStep(kind)
    /\ event.transaction_id \in DOMAIN prev_transactions_by_id
    /\ prev_transactions_by_id[event.transaction_id].dispute_status = "None"

\* C14 as stated: a chargeback is accepted only while the transaction is
\* Pending (Disputed); a chargeback on a transaction that is None is rejected
\* with the not-disputed error and changes nothing, whoever sends it; a
\* resolve of a transaction that is None is rejected.
C14_ChargebackOfUndisputedIsNotDisputed ==
    /\ (Accepted /\ IsDisputeStep("Chargeback")) =>
          prev_transactions_by_id[event.transaction_id].dispute_status = "Pending"
    /\ C14_StepOnUndisputed("Chargeback") =>
          /\ result = Err(ERR_NOT_DISPUTED, <<>>)
          /\ NothingChanged
    /\ C14_StepOnUndisputed("Resolve") => Rejected /\ NothingChanged

\* C14, amended: a chargeback is accepted only while the transaction is
\* Pending (Disputed); a chargeback on a transaction that is None is rejected
\* and changes nothing (no lock, no balance), with the not-disputed error
\* when the transaction's owner sends it and with the client-mismatch error
\* when another client does; a resolve of a transaction that is None is
\* rejected and changes nothing.
C14_ChargebackOfUndisputedIsRejected ==
    /\ (Accepted /\ IsDisputeStep("Chargeback")) =>
          prev_transactions_by_id[event.transaction_id].dispute_status = "Pending"
    /\ C14_StepOnUndisputed("Chargeback") =>
          LET o == prev_transactions_by_id[event.transaction_id].client_id IN
          /\ result = IF event.client_id = o
                      THEN Err(ERR_NOT_DISPUTED, <<>>)
                      ELSE Err(ERR_MISMATCH, <<event.client_id, o>>)
          /\ NothingChanged
          /\ clients_by_id[o].locked = prev_clients_by_id[o].locked
    /\ C14_StepOnUndisputed("Resolve") => Rejected /\ NothingChanged

\* A deposit was disputed and the dispute resolved; its owner's chargeback
\* has just been rejected as not disputed and the owner is not locked.
C14_Witness ==
    \E c \in ClientIDs, d \in TransactionIDs :
       /\ processed = 4
       /\ Len(error_logger) = 1
       /\ C14_StepOnUndisputed("Chargeback")
       /\ event = DisputeStep("Chargeback", d, c)
       /\ result = Err(ERR_NOT_DISPUTED, <<>>)
       /\ DOMAIN transactions_by_id = {d}
       /\ transactions_by_id[d] = [client_id |-> c, amount |-> 1,
                                   kind |-> "Deposit", dispute_status |-> "None"]
       /\ clients_by_id[c] = [held |-> 0, total |-> 1, locked |-> FALSE]

\* ------------------------------------------------------------ C15
\* C15: ChargedBack is terminal.  A transaction that is ChargedBack before an
\* event is the same record after it, and a dispute, resolve or chargeback
\* that its owner sends for it is rejected with the already-charged-back
\* error and changes no transaction and no client.
C15_ChargedBackIsTerminal ==
    Stepped =>
      /\ \A t \in DOMAIN prev_transactions_by_id :
            prev_transactions_by_id[t].dispute_status = "ChargedBack" =>
               /\ t \in DOMAIN transactions_by_id
               /\ transactions_by_id[t] = prev_transactions_by_id[t]
      /\ (/\ event.type = "DisputeStep"
          /\ event.transaction_id \in DOMAIN prev_transactions_by_id
          /\ prev_transactions_by_id[event.transaction_id].dispute_status
                = "ChargedBack"
          /\ prev_transactions_by_id[event.transaction_id].client_id
                = event.client_id) =>
            /\ result = Err(ERR_CHARGED_BACK, <<>>)
            /\ NothingChanged

\* The owner of a charged-back deposit has just sent a dispute for it, which
\* was rejected as already charged back
\* (test_unsuccessful_disputed_deposit_due_to_already_charged_back).
C15_Witness ==
    /\ Rejected
    /\ IsDisputeStep("Dispute")
    /\ event.transaction_id \in DOMAIN prev_transactions_by_id
    /\ prev_transactions_by_id[event.transaction_id] =
          [client_id |-> event.client_id, amount |-> 1, kind |-> "Deposit",
           dispute_status |-> "ChargedBack"]
    /\ result = Err(ERR_CHARGED_BACK, <<>>)
    /\ clients_by_id[event.client_id] =
          [held |-> 0, total |-> 0, locked |-> TRUE]

\* ------------------------------------------------------------ C16
\* C16: a deposit whose transaction_id is not recorded is accepted exactly
\* when the client it names is not locked, and is never rejected for
\* insufficient funds.  When accepted, the client's total grows by the
\* amount, held and locked stay, and the record (that client, that amount,
\* Deposit, None) is inserted under the id.  When Client::deposit fails the
\* transaction map is left as it was.
C16_DepositWithFreshId ==
    (Stepped /\ IsTransaction("Deposit")
             /\ event.transaction_id \notin DOMAIN prev_transactions_by_id) =>
       LET c == event.client_id
           before == LedgerBefore(c)
       IN  /\ Accepted <=> ~before.locked
           /\ result # Err(ERR_INSUFFICIENT, <<>>)
           /\ Accepted =>
                 /\ clients_by_id[c] = [before EXCEPT !.total = @ + event.amount]
                 /\ transactions_by_id =
                       MapInsert(prev_transactions_by_id, event.transaction_id,
                                 [client_id |-> c, amount |-> event.amount,
                                  kind |-> "Deposit", dispute_status |-> "None"])
           /\ Rejected =>
                 /\ result = Err(ERR_DEPOSIT_LOCKED, <<>>)
                 /\ transactions_by_id = prev_transactions_by_id
                 /\ clients_by_id = prev_clients_by_id

\* A deposit with an id not recorded has just been refused by a locked
\* client, and the id is still not recorded.
C16_Witness ==
    /\ Rejected
    /\ IsTransaction("Deposit")
    /\ event.amount > 0
    /\ event.transaction_id \notin DOMAIN prev_transactions_by_id
    /\ event.transaction_id \notin DOMAIN transactions_by_id
    /\ prev_clients_by_id[event.client_id].locked
    /\ result = Err(ERR_DEPOSIT_LOCKED, <<>>)

\* ------------------------------------------------------------ C17
\* The sum of the amounts of the records ids of the transaction map m.
RECURSIVE SumOfAmounts(_, _)
SumOfAmounts(m, ids) ==
    IF ids = {} THEN 0
    ELSE LET t == CHOOSE x \in ids : TRUE
         IN  m[t].amount + SumOfAmounts(m, ids \ {t})

\* The recorded transactions of client c of that kind whose status is in
\* statuses.
RecordsOf(c, kind, statuses) ==
    {t \in DOMAIN transactions_by_id :
        /\ transactions_by_id[t].client_id = c
        /\ transactions_by_id[t].kind = kind
        /\ transactions_by_id[t].dispute_status \in statuses}

\* The whole run so far is two deposits to client c, the first one of amount
\* first under the id firstId (a deposit into an empty processor is always
\* accepted and recorded).
C17_TwoDeposits(c, firstId, first) ==
    /\ processed = 2
    /\ Stepped
    /\ IsTransaction("Deposit")
    /\ event.client_id = c
    /\ DOMAIN prev_transactions_by_id = {firstId}
    /\ prev_transactions_by_id[firstId] =
          [client_id |-> c, amount |-> first, kind |-> "Deposit",
           dispute_status |-> "None"]

\* C17 as stated: after any run made of deposits to one client, which never
\* locks the account, the client's total is the sum of the amounts of the
\* deposit events.
C17_TotalIsSumOfDepositedAmounts ==
    \A c \in ClientIDs, firstId \in TransactionIDs, first \in Amounts :
       C17_TwoDeposits(c, firstId, first) =>
          /\ ~clients_by_id[c].locked
          /\ clients_by_id[c].total = first + event.amount

\* C17, amended: after a run made of deposits to one client the account is
\* not locked and its total is the sum of the amounts of the deposits whose
\* transaction id had not been used before; a deposit that reuses an id adds
\* nothing.  In every reachable state the total of an unlocked client with
\* no recorded withdrawal is the sum of the amounts of its recorded deposits.
C17_TotalIsSumOfAcceptedDeposits ==
    /\ \A c \in ClientIDs, firstId \in TransactionIDs, first \in Amounts :
          C17_TwoDeposits(c, firstId, first) =>
             /\ ~clients_by_id[c].locked
             /\ clients_by_id[c].total =
                   first + (IF event.transaction_id = firstId THEN 0
                            ELSE event.amount)
             /\ Accepted <=> event.transaction_id # firstId
    /\ \A c \in DOMAIN clients_by_id :
          (/\ ~clients_by_id[c].locked
           /\ RecordsOf(c, "Withdrawal", DisputeStatus) = {}) =>
             clients_by_id[c].total =
                SumOfAmounts(transactions_by_id,
                             RecordsOf(c, "Deposit", DisputeStatus))

\* Two deposits of a positive amount under different ids have been made to
\* one client, whose total is their sum (test_two_deposits).
C17_Witness ==
    \E c \in ClientIDs, firstId \in TransactionIDs :
       /\ C17_TwoDeposits(c, firstId, 1)
       /\ Accepted
       /\ event.amount = 1
       /\ event.transaction_id # firstId
       /\ clients_by_id[c] = [held |-> 0, total |-> 2, locked |-> FALSE]

\* ------------------------------------------------------------ C18
\* The sum of the amounts of client c's records of that kind and statuses.
\* The records of a kind are the accepted events of that kind (C7, C8, C16).
Sum(c, kind, statuses) ==
    SumOfAmounts(transactions_by_id, RecordsOf(c, kind, statuses))

\* C18 as stated: every client's total is the sum of its accepted deposits
\* minus the sum of its accepted withdrawals minus the sum of the amounts of
\* its charged-back transactions, deposits and withdrawals alike.
C18_TotalSubtractsEveryChargeback ==
    \A c \in DOMAIN clients_by_id :
       clients_by_id[c].total =
          Sum(c, "Deposit", DisputeStatus) - Sum(c, "Withdrawal", DisputeStatus)
             - (Sum(c, "Deposit", {"ChargedBack"})
                   + Sum(c, "Withdrawal", {"ChargedBack"}))

\* C18, amended: every client's total is the sum of its accepted deposits
\* minus the sum of its accepted withdrawals, minus the sum of the amounts of
\* its charged-back deposits, plus the sum of the amounts of its charged-back
\* withdrawals.
C18_TotalReversesEveryChargeback ==
    \A c \in DOMAIN clients_by_id :
       clients_by_id[c].total =
          Sum(c, "Deposit", DisputeStatus) - Sum(c, "Withdrawal", DisputeStatus)
             - Sum(c, "Deposit", {"ChargedBack"})
             + Sum(c, "Withdrawal", {"ChargedBack"})

\* A client has made a deposit and a withdrawal of the same positive amount
\* and the withdrawal has been charged back: the total is the deposit again.
C18_Witness ==
    \E c \in ClientIDs :
       /\ Sum(c, "Deposit", {"None"}) = 1
       /\ Sum(c, "Withdrawal", {"ChargedBack"}) = 1
       /\ Cardinality(RecordsOf(c, "Withdrawal", DisputeStatus)) = 1
       /\ clients_by_id[c].total = 1
       /\ clients_by_id[c].locked

\* ------------------------------------------------------------ C19
\* C19: in every state reached by events whose amounts are not negative
\* (every recorded amount is >= 0; a rejected event leaves no amount behind),
\* every client's held is >= 0.
C19_HeldIsNeverNegative ==
    (\A t \in DOMAIN transactions_by_id : transactions_by_id[t].amount >= 0) =>
       \A c \in DOMAIN clients_by_id : clients_by_id[c].held >= 0

\* ------------------------------------------------------------ C20
\* The run so far is deposit(c, d, A) and withdrawal(c, w, A), both
\* accepted, and the third event is dispute(c, d)
\* (test_disputed_deposit_after_equivalent_withdrawal).
C20_Scenario(c, d, w, A) ==
    /\ processed = 3
    /\ event = DisputeStep("Dispute", d, c)
    /\ d # w
    /\ DOMAIN prev_transactions_by_id = {d, w}
    /\ prev_transactions_by_id[d] = [client_id |-> c, amount |-> A,
                                     kind |-> "Deposit", dispute_status |-> "None"]
    /\ prev_transactions_by_id[w] = [client_id |-> c, amount |-> A,
                                     kind |-> "Withdrawal", dispute_status |-> "None"]

\* C20: the dispute of an undisputed deposit by its owner is accepted whatever
\* the owner's available balance is, and holds the deposit's amount; after
\* deposit A, withdrawal A and the dispute of the deposit nothing has been
\* logged and the client has held A, total 0 (available -A) and is not
\* locked.
C20_DepositDisputeIgnoresAvailable ==
    /\ (/\ Stepped
        /\ IsDisputeStep("Dispute")
        /\ event.transaction_id \in DOMAIN prev_transactions_by_id
        /\ prev_transactions_by_id[event.transaction_id] \in
              [client_id : {event.client_id}, amount : Amounts,
               kind : {"Deposit"}, dispute_status : {"None"}]) =>
          /\ Accepted
          /\ clients_by_id[event.client_id].held =
                prev_clients_by_id[event.client_id].held +
                   prev_transactions_by_id[event.transaction_id].amount
    /\ \A c \in ClientIDs, d \in TransactionIDs, w \in TransactionIDs, A \in Amounts :
          C20_Scenario(c, d, w, A) =>
             /\ Accepted
             /\ error_logger = <<>>
             /\ clients_by_id[c] = [held |-> A, total |-> 0, locked |-> FALSE]
             /\ available(clients_by_id[c]) = 0 - A

\* A deposit of a positive amount was withdrawn in full and then disputed:
\* the dispute was accepted and the client's available is negative.
C20_Witness ==
    \E c \in ClientIDs, d \in TransactionIDs, w \in TransactionIDs :
       /\ C20_Scenario(c, d, w, 1)
       /\ Accepted
       /\ available(prev_clients_by_id[c]) = 0
       /\ available(clients_by_id[c]) < 0

\* ------------------------------------------------------------ C21
\* C21: every record that is in the transaction map before an event is in
\* it after the event with the same client_id, amount and kind; only its
\* dispute_status may differ.
C21_RecordsAreImmutable ==
    Stepped =>
       \A t \in DOMAIN prev_transactions_by_id :
          /\ t \in DOMAIN transactions_by_id
          /\ transactions_by_id[t].client_id = prev_transactions_by_id[t].client_id
          /\ transactions_by_id[t].amount = prev_transactions_by_id[t].amount
          /\ transactions_by_id[t].kind = prev_transactions_by_id[t].kind

\* The status of a recorded withdrawal of a positive amount has just been
\* changed while another record was in the map.
C21_Witness ==
    /\ Accepted
    /\ event.type = "DisputeStep"
    /\ Cardinality(DOMAIN prev_transactions_by_id) = 2
    /\ prev_transactions_by_id[event.transaction_id].kind = "Withdrawal"
    /\ prev_transactions_by_id[event.transaction_id].amount = 1
    /\ transactions_by_id[event.transaction_id].dispute_status #
          prev_transactions_by_id[event.transaction_id].dispute_status

\* ------------------------------------------------------------ C22
\* The transaction ids whose record an event created or changed.
TouchedTransactions ==
    {t \in DOMAIN transactions_by_id :
        t \notin DOMAIN prev_transactions_by_id
           \/ transactions_by_id[t] # prev_transactions_by_id[t]}

\* The client ids whose ledger an event created or changed.
TouchedClients ==
    {c \in DOMAIN clients_by_id :
        c \notin DOMAIN prev_clients_by_id
           \/ clients_by_id[c] # prev_clients_by_id[c]}

\* C22: an event touches at most one transaction record and at most one
\* client ledger and removes none.  A deposit or withdrawal touches no client
\* but the one it names and no record that existed; a dispute, resolve or
\* chargeback touches no record but the one it names and no client but that
\* record's owner.
C22_EventTouchesOneRecordOneLedger ==
    Stepped =>
       /\ DOMAIN prev_transactions_by_id \subseteq DOMAIN transactions_by_id
       /\ DOMAIN prev_clients_by_id \subseteq DOMAIN clients_by_id
       /\ Cardinality(TouchedTransactions) <= 1
       /\ Cardinality(TouchedClients) <= 1
       /\ event.type = "Transaction" =>
             /\ TouchedClients \subseteq {event.client_id}
             /\ TouchedTransactions \cap DOMAIN prev_transactions_by_id = {}
       /\ event.type = "DisputeStep" =>
             /\ TouchedTransactions \subseteq
                   {event.transaction_id} \cap DOMAIN prev_transactions_by_id
             /\ \A c \in TouchedClients :
                   /\ event.transaction_id \in DOMAIN prev_transactions_by_id
                   /\ c = prev_transactions_by_id[event.transaction_id].client_id

\* A second client has just made a deposit under a second id while the first
\* client had a ledger and a record: both were left as they were.
C22_Witness ==
    /\ Accepted
    /\ IsTransaction("Deposit")
    /\ event.amount = 1
    /\ Cardinality(DOMAIN prev_clients_by_id) = 1
    /\ Cardinality(DOMAIN prev_transactions_by_id) = 1
    /\ TouchedClients = {event.client_id}
    /\ TouchedTransactions = {event.transaction_id}
    /\ event.client_id \notin DOMAIN prev_clients_by_id

\* ------------------------------------------------------------ C23
\* C23: whenever process_events has returned and the feed yielded no
\* failure, every event of the feed has been applied and the value returned
\* is Ok with the final client map: a rejected event never ends the loop.
C23_FeedWithoutFailureReturnsTheMap ==
    (pc # "loop" /\ returned.kind # "ErrFeed") => returned.kind = "Ok"

C25_FeedFailureAbortsTheRun ==
    /\ [](returned.kind = "ErrFeed" =>
            /\ pc \in {"returned", "failed"}
            /\ event = NoEvent
            /\ output = <<>>)
    /\ [](pc = "reported" => returned.kind = "Ok")
    /\ [][(pc = "loop" /\ returned'.kind = "ErrFeed") =>
             /\ pc' = "returned"
             /\ processed' = processed + 1
             /\ error_logger' = error_logger]_vars
    /\ [][returned.kind = "ErrFeed" =>
             /\ pc' = "failed"
             /\ UNCHANGED <<clients_by_id, transactions_by_id, error_logger,
                            processed, returned, output>>]_vars

\* The feed failed at its third item, after an accepted and a rejected
\* event and before it could yield anything else: run_aux has returned the
\* error (test_error_event).
C25_Witness ==
    /\ pc = "failed"
    /\ returned = [kind |-> "ErrFeed", clients |-> EmptyMap]
    /\ processed = 3
    /\ processed < MaxEvents
    /\ Len(error_logger) = 1
    /\ output = <<>>

\* ------------------------------------------------------------ C26
\* C26: a turn of the loop hands the error sink exactly one line, the
\* error's text, when the event is rejected and nothing when it is accepted;
\* the line is appended to the lines the sink already took, none of which is
\* ever removed or reordered, so the lines are the rejections in feed order.
\* No step outside the loop writes to the sink, and a line the sink refuses
\* ends the loop with the earlier lines as they were.
C26_OneLinePerRejectedEvent ==
    /\ [][(pc = "loop" /\ pc' = "loop") =>
             error_logger' = IF result' = Ok THEN error_logger
                             ELSE Append(error_logger, result')]_vars
    /\ [][(pc' # "loop") => error_logger' = error_logger]_vars
    /\ [](Rejected => /\ error_logger # <<>>
                      /\ error_logger[Len(error_logger)] = result)

\* A withdrawal was rejected for insufficient funds and then a dispute of it
\* as not found: the sink holds the two lines in that order
\* (test_unsuccessful_disputed_withdrawal_due_to_unsuccessful_withdrawal).
C26_Witness ==
    /\ processed = 2
    /\ IsDisputeStep("Dispute")
    /\ error_logger = <<Err(ERR_INSUFFICIENT, <<>>),
                        Err(ERR_NOT_FOUND, <<event.transaction_id>>)>>
    /\ DOMAIN clients_by_id = {event.client_id}

\* ------------------------------------------------------------ C27
\* C27: what process_events returns depends on the feed alone, not on the
\* sink: whenever the loop is left, it is on a failure of the feed or with
\* Ok and the client map the events have built.
C27_SinkDoesNotAffectTheResult ==
    [][(pc = "loop" /\ pc' # "loop") =>
          \/ returned'.kind = "ErrFeed"
          \/ returned' = [kind |-> "Ok", clients |-> clients_by_id]]_vars

\* ------------------------------------------------------------ C28
\* C28: a dispute, resolve or chargeback whose transaction_id has no record
\* is rejected with the not-found error naming that id and changes nothing:
\* the client map, with its set of clients, and the transaction map are what
\* they were.
C28_StepOnUnrecordedIsNotFound ==
    (Stepped /\ event.type = "DisputeStep"
             /\ event.transaction_id \notin DOMAIN prev_transactions_by_id) =>
       /\ result = Err(ERR_NOT_FOUND, <<event.transaction_id>>)
       /\ NothingChanged
       /\ DOMAIN clients_by_id = DOMAIN prev_clients_by_id
       /\ event.transaction_id \notin DOMAIN transactions_by_id

\* A client not seen before has just sent a chargeback for an id with no
\* record, while another client and another record exist: it was rejected
\* as not found and the sender has no ledger.
C28_Witness ==
    /\ Rejected
    /\ IsDisputeStep("Chargeback")
    /\ event.transaction_id \notin DOMAIN transactions_by_id
    /\ event.client_id \notin DOMAIN clients_by_id
    /\ DOMAIN clients_by_id # {}
    /\ DOMAIN transactions_by_id # {}
    /\ result = Err(ERR_NOT_FOUND, <<event.transaction_id>>)

\* ------------------------------------------------------------ C29
\* The Processor with the locked flag of client o set to b.
WithLock(o, b) == [processor EXCEPT !.clients_by_id[o].locked = b]

\* C29: the locked flag plays no part in a dispute, resolve or chargeback.
\* The result of such an event on a recorded transaction is fixed by the
\* ownership check and the transaction's status alone; whether the owner is
\* locked or not, the same event gets the same result and makes the same
\* change to the record and to the owner's held and total; and an accepted
\* dispute or resolve on a locked client's transaction moves its held.
C29_LockDoesNotBlockDisputeSteps ==
    /\ (Stepped /\ event.type = "DisputeStep"
                /\ event.transaction_id \in DOMAIN prev_transactions_by_id) =>
          LET before == prev_transactions_by_id[event.transaction_id]
              o == before.client_id
          IN  /\ result =
                    IF event.client_id # o
                    THEN Err(ERR_MISMATCH, <<event.client_id, o>>)
                    ELSE IF before.dispute_status # LegalFrom(event.kind)
                    THEN Err(TransitionError(before.dispute_status), <<>>)
                    ELSE Ok
              /\ (Accepted /\ prev_clients_by_id[o].locked
                           /\ event.kind # "Chargeback") =>
                    clients_by_id[o].held = prev_clients_by_id[o].held +
                       (IF event.kind = "Dispute"
                        THEN dispute_hold_amount(before)
                        ELSE resolve_hold_amount(before))
    /\ pc = "loop" =>
          \A e \in DisputeStepEvents :
             e.transaction_id \in DOMAIN transactions_by_id =>
                LET o == transactions_by_id[e.transaction_id].client_id
                    locked == process_event(WithLock(o, TRUE), e)
                    unlocked == process_event(WithLock(o, FALSE), e)
                IN  /\ locked.result = unlocked.result
                    /\ locked.p.transactions_by_id = unlocked.p.transactions_by_id
                    /\ locked.p.clients_by_id[o].held = unlocked.p.clients_by_id[o].held
                    /\ locked.p.clients_by_id[o].total = unlocked.p.clients_by_id[o].total

\* A client locked by the chargeback of one deposit has just had the dispute
\* of its other deposit accepted, which raised its held.
C29_Witness ==
    /\ Accepted
    /\ IsDisputeStep("Dispute")
    /\ prev_clients_by_id[event.client_id].locked
    /\ prev_transactions_by_id[event.transaction_id].amount = 1
    /\ prev_transactions_by_id[event.transaction_id].kind = "Deposit"
    /\ clients_by_id[event.client_id].held =
          prev_clients_by_id[event.client_id].held + 1

\* ------------------------------------------------------------ C30
\* C30: the report written for the client map that process_events returned
\* has exactly one row per client of the map, the rows are in ascending order
\* of client id whatever order the map yields its entries in, and each row
\* carries the client's held, total and locked with available = total - held.
C30_ReportHasOneSortedRowPerClient ==
    pc = "reported" =>
       /\ Len(output) = Cardinality(DOMAIN returned.clients)
       /\ {output[i].client : i \in DOMAIN output} = DOMAIN returned.clients
       /\ \A i, j \in DOMAIN output :
             i < j => output[i].client < output[j].client
       /\ \A i \in DOMAIN output :
             LET c == returned.clients[output[i].client] IN
             output[i] = [client |-> output[i].client,
                          available |-> c.total - c.held,
                          held |-> c.held, total |-> c.total,
                          locked |-> c.locked]

\* A report of two rows has been written, client 1 before client 2; the
\* first client has funds held, so its available differs from its total.
C30_Witness ==
    /\ pc = "reported"
    /\ Len(output) = 2
    /\ output[1].client = 1
    /\ output[2].client = 2
    /\ output[1].held = 1
    /\ output[1].total = 1
    /\ output[1].available = 0

\* ------------------------------------------------------------ C31
\* The ledger a client is created with.
NewLedger == [held |-> 0, total |-> 0, locked |-> FALSE]

\* The feed has ended and process_events returned the client map of a run
\* whose rejected events wrote exactly the lines errors.
FinalMapAfter(errors) ==
    /\ pc = "returned"
    /\ returned.kind = "Ok"
    /\ error_logger = errors

\* C31: a withdrawal rejected for insufficient funds that names a client id
\* not seen before leaves that client in the client map with held 0, total 0
\* and locked false, and the map process_events returns still has it: after
\* the run made of that withdrawal alone, and after the run made of that
\* withdrawal and a dispute step rejected as not found, the final client map
\* is exactly that one client with held 0, total 0 and locked false.
C31_RefusedWithdrawalLeavesNewClient ==
    /\ (/\ Rejected
        /\ IsTransaction("Withdrawal")
        /\ result = Err(ERR_INSUFFICIENT, <<>>)
        /\ event.client_id \notin DOMAIN prev_clients_by_id) =>
          /\ DOMAIN clients_by_id =
                DOMAIN prev_clients_by_id \cup {event.client_id}
          /\ clients_by_id[event.client_id] = NewLedger
    /\ (processed = 1 /\ FinalMapAfter(<<Err(ERR_INSUFFICIENT, <<>>)>>)) =>
          \E c \in ClientIDs :
             /\ DOMAIN returned.clients = {c}
             /\ returned.clients[c] = NewLedger
    /\ \A t \in TransactionIDs :
          (/\ processed = 2
           /\ FinalMapAfter(<<Err(ERR_INSUFFICIENT, <<>>),
                              Err(ERR_NOT_FOUND, <<t>>)>>)) =>
             \E c \in ClientIDs :
                /\ DOMAIN returned.clients = {c}
                /\ returned.clients[c] = NewLedger

\* The run of test_unsuccessful_disputed_withdrawal_due_to_unsuccessful_
\* withdrawal has ended: a refused withdrawal, then a dispute of its id, and
\* the map returned holds the client the withdrawal named.
C31_Witness ==
    \E t \in TransactionIDs, c \in ClientIDs :
       /\ processed = 2
       /\ FinalMapAfter(<<Err(ERR_INSUFFICIENT, <<>>),
                          Err(ERR_NOT_FOUND, <<t>>)>>)
       /\ c \in DOMAIN returned.clients
       /\ returned.clients[c] = NewLedger

\* ------------------------------------------------------------ C32
\* The statuses other than ChargedBack.
NotChargedBack == DisputeStatus \ {"ChargedBack"}

\* C32: in every reachable state the total of every client is the sum of the
\* amounts of its Deposit records that are not charged back minus the sum of
\* the amounts of its Withdrawal records that are not charged back.
C32_TotalIsLiveDepositsMinusLiveWithdrawals ==
    \A c \in DOMAIN clients_by_id :
       clients_by_id[c].total =
          Sum(c, "Deposit", NotChargedBack) - Sum(c, "Withdrawal", NotChargedBack)

\* A client has two deposits of a positive amount, one of them charged back,
\* and its total is the amount of the other.
C32_Witness ==
    \E c \in DOMAIN clients_by_id :
       /\ Sum(c, "Deposit", {"ChargedBack"}) = 1
       /\ Sum(c, "Deposit", NotChargedBack) = 1
       /\ clients_by_id[c].total = 1

ChargedBackRecordsOf(c) ==
    {t \in DOMAIN transactions_by_id :
        /\ transactions_by_id[t].client_id = c
        /\ transactions_by_id[t].dispute_status = "ChargedBack"}

\* C34: in every reachable state a client is locked if and only if at least
\* one Transaction record it owns has status ChargedBack.
C34_LockedIffSomeRecordChargedBack ==
    \A c \in DOMAIN clients_by_id :
       clients_by_id[c].locked <=> ChargedBackRecordsOf(c) # {}

\* One client is locked and owns a charged-back record while another client
\* owns a record, none charged back, and is not locked.
C34_Witness ==
    \E c, d \in DOMAIN clients_by_id :
       /\ clients_by_id[c].locked
       /\ ChargedBackRecordsOf(c) # {}
       /\ ~clients_by_id[d].locked
       /\ \E t \in DOMAIN transactions_by_id :
             transactions_by_id[t].client_id = d
       /\ ChargedBackRecordsOf(d) = {}

\* ------------------------------------------------------------ C35
\* C35: in every reachable state the client_id of every Transaction record
\* is a key of the client map, and no event removes a client from the map;
\* so get_transaction_and_client never answers 'Client does not exist':
\* not for the event just processed, not in any line written so far, and
\* not for any transaction id the next dispute step could carry.
C35_EveryRecordHasItsClient ==
    /\ \A t \in DOMAIN transactions_by_id :
          transactions_by_id[t].client_id \in DOMAIN clients_by_id
    /\ Stepped => DOMAIN prev_clients_by_id \subseteq DOMAIN clients_by_id
    /\ result.msg # ERR_NO_CLIENT
    /\ \A i \in DOMAIN error_logger : error_logger[i].msg # ERR_NO_CLIENT
    /\ \A t \in TransactionIDs :
          get_transaction_and_client(processor, t).msg # ERR_NO_CLIENT

\* A dispute step has just found its record and the record's owner, in a
\* map of two clients of which the other owns a record too.
C35_Witness ==
    /\ Accepted
    /\ event.type = "DisputeStep"
    /\ DOMAIN clients_by_id = DOMAIN prev_clients_by_id
    /\ Cardinality(DOMAIN clients_by_id) = 2
    /\ \E t, u \in DOMAIN transactions_by_id :
          transactions_by_id[t].client_id # transactions_by_id[u].client_id

\* ------------------------------------------------------------ C36
\* The transaction ids carried by the deposits and withdrawals the ledger
\* has turned down so far.
RefusedIds == {r.transaction_id : r \in refused}

\* The event in hand is a deposit or withdrawal that the lock and funds
\* checks of its client's ledger let through.
PassesLedgerChecks ==
    /\ Stepped
    /\ event.type = "Transaction"
    /\ IF event.kind = "Deposit"
       THEN Client_deposit(LedgerBefore(event.client_id), event.amount).result = Ok
       ELSE Client_withdraw(LedgerBefore(event.client_id), event.amount).result = Ok

\* The event in hand has created the record of its transaction id.
CreatedItsRecord ==
    /\ event.transaction_id \notin DOMAIN prev_transactions_by_id
    /\ transactions_by_id =
          MapInsert(prev_transactions_by_id, event.transaction_id,
                    Transaction_new(event.client_id, event.amount, event.kind))

\* C36 as stated: a deposit or withdrawal that reuses a transaction id
\* carried by an earlier rejected deposit or withdrawal is accepted whenever
\* it passes the lock and funds checks, and it creates the record for that
\* id.
C36_RefusedIdIsAcceptedLater ==
    (PassesLedgerChecks /\ event.transaction_id \in RefusedIds) =>
       Accepted /\ CreatedItsRecord

\* C36, amended: the rejection of a deposit or withdrawal records nothing,
\* so it does not use up the transaction id; a later deposit or withdrawal
\* reusing an id the ledger turned down is accepted, and creates the record
\* for that id, whenever the id is still unrecorded and the event passes the
\* lock and funds checks. Once an accepted event has taken the id, every
\* reuse is rejected as a duplicate.
C36_RefusedIdIsFreeUntilRecorded ==
    /\ (Rejected /\ event.type = "Transaction") =>
          transactions_by_id = prev_transactions_by_id
    /\ (PassesLedgerChecks /\ event.transaction_id \in RefusedIds) =>
          IF event.transaction_id \in DOMAIN prev_transactions_by_id
          THEN /\ result = Err(ERR_EXISTS, <<event.transaction_id>>)
               /\ NothingChanged
          ELSE Accepted /\ CreatedItsRecord

\* A deposit of a positive amount has just been accepted under an id that a
\* withdrawal refused earlier had carried; its record is the only one.
C36_Witness ==
    /\ Accepted
    /\ IsTransaction("Deposit")
    /\ event.amount > 0
    /\ [kind |-> "Withdrawal", transaction_id |-> event.transaction_id]
          \in refused
    /\ CreatedItsRecord
    /\ DOMAIN transactions_by_id = {event.transaction_id}

\* ------------------------------------------------------------ C37
\* C37: in every reachable state, a deposit or withdrawal whose
\* transaction_id is recorded is rejected with the duplicate-transaction
\* error naming the id and leaves both maps as they are, whoever the client
\* is: locked, short of the amount, or not in the client map, which it does
\* not enter. So the processed event with a recorded id got that error and
\* no ledger error, and created no client.
C37_DuplicateCheckComesFirst ==
    /\ \A e \in TransactionEvents(Amounts) :
          e.transaction_id \in DOMAIN transactions_by_id =>
             process_event(processor, e) =
                [p |-> processor,
                 result |-> Err(ERR_EXISTS, <<e.transaction_id>>)]
    /\ (Stepped /\ event.type = "Transaction"
                /\ event.transaction_id \in DOMAIN prev_transactions_by_id) =>
          /\ result.msg = ERR_EXISTS
          /\ result.msg \notin LedgerErrors
          /\ DOMAIN clients_by_id = DOMAIN prev_clients_by_id
          /\ clients_by_id = prev_clients_by_id

\* A withdrawal of a positive amount naming a client not seen before, under
\* the id of a charged-back record of a locked client, has just been
\* rejected as a duplicate and the client map has not grown.
C37_Witness ==
    /\ Rejected
    /\ IsTransaction("Withdrawal")
    /\ event.amount > 0
    /\ event.transaction_id \in DOMAIN prev_transactions_by_id
    /\ prev_clients_by_id[prev_transactions_by_id[event.transaction_id].client_id].locked
    /\ event.client_id \notin DOMAIN prev_clients_by_id
    /\ event.client_id \notin DOMAIN clients_by_id
    /\ result = Err(ERR_EXISTS, <<event.transaction_id>>)

\* ------------------------------------------------------------ C38
\* The balances tried on Client::withdraw by itself.
Balances == (0 - (MaxAmount + MaxDebit))..(MaxAmount + MaxDebit)

\* C38: Client::withdraw on a locked client returns the account-locked error
\* and leaves the ledger alone, for every held, total and amount, also when
\* available is short of the amount; so in every reachable state a
\* withdrawal with a transaction_id not yet recorded that names a locked
\* client is rejected with the account-locked error, never with
\* insufficient funds, and records nothing.
C38_LockCheckPrecedesFundsCheck ==
    /\ \A held \in Balances, total \in Balances, amount \in Amounts :
          LET c == [held |-> held, total |-> total, locked |-> TRUE] IN
          Client_withdraw(c, amount) =
             [result |-> Err(ERR_WITHDRAW_LOCKED, <<>>), client |-> c]
    /\ \A e \in TransactionEvents(Amounts) :
          (/\ e.kind = "Withdrawal"
           /\ e.transaction_id \notin DOMAIN transactions_by_id
           /\ e.client_id \in DOMAIN clients_by_id
           /\ clients_by_id[e.client_id].locked) =>
             process_event(processor, e) =
                [p |-> processor, result |-> Err(ERR_WITHDRAW_LOCKED, <<>>)]
    /\ (/\ Stepped
        /\ IsTransaction("Withdrawal")
        /\ event.transaction_id \notin DOMAIN prev_transactions_by_id
        /\ LedgerBefore(event.client_id).locked) =>
          /\ result = Err(ERR_WITHDRAW_LOCKED, <<>>)
          /\ result.msg # ERR_INSUFFICIENT

\* A withdrawal with a fresh id of more than the available balance of a
\* locked client has just been rejected with the account-locked error.
C38_Witness ==
    /\ Rejected
    /\ IsTransaction("Withdrawal")
    /\ event.transaction_id \notin DOMAIN prev_transactions_by_id
    /\ event.client_id \in DOMAIN prev_clients_by_id
    /\ prev_clients_by_id[event.client_id].locked
    /\ available(prev_clients_by_id[event.client_id]) < event.amount
    /\ result = Err(ERR_WITHDRAW_LOCKED, <<>>)

\* ------------------------------------------------------------ C39
\* C39: a dispute or a resolve, accepted or not, leaves the total and the
\* locked flag of every client as they were; a chargeback, accepted or not,
\* leaves the available (total - held) of every client as it was; and an
\* accepted chargeback takes from the owner's total and from its held the
\* very amount the dispute of that record had added to held: +amount for a
\* deposit, -amount for a withdrawal.
C39_DisputeStepsKeepTotalChargebackKeepsAvailable ==
    /\ (Stepped /\ (IsDisputeStep("Dispute") \/ IsDisputeStep("Resolve"))) =>
          /\ DOMAIN clients_by_id = DOMAIN prev_clients_by_id
          /\ \A c \in DOMAIN clients_by_id :
                /\ clients_by_id[c].total = prev_clients_by_id[c].total
                /\ clients_by_id[c].locked = prev_clients_by_id[c].locked
    /\ (Stepped /\ IsDisputeStep("Chargeback")) =>
          /\ DOMAIN clients_by_id = DOMAIN prev_clients_by_id
          /\ \A c \in DOMAIN clients_by_id :
                available(clients_by_id[c]) = available(prev_clients_by_id[c])
    /\ (Accepted /\ IsDisputeStep("Chargeback")) =>
          LET record == prev_transactions_by_id[event.transaction_id]
              o == record.client_id
              moved == dispute_hold_amount(record)
          IN  /\ clients_by_id[o].total = prev_clients_by_id[o].total - moved
              /\ clients_by_id[o].held = prev_clients_by_id[o].held - moved

\* The chargeback of a disputed withdrawal of a positive amount has just
\* been accepted: the amount is back in total and out of the negative hold,
\* and available is what it was.
C39_Witness ==
    /\ Accepted
    /\ IsDisputeStep("Chargeback")
    /\ prev_transactions_by_id[event.transaction_id].kind = "Withdrawal"
    /\ prev_transactions_by_id[event.transaction_id].amount > 0
    /\ clients_by_id[event.client_id].total >
          prev_clients_by_id[event.client_id].total
    /\ available(clients_by_id[event.client_id]) =
          available(prev_clients_by_id[event.client_id])

\* ------------------------------------------------------------ C40
\* C40: a withdrawal with a transaction_id not yet recorded, naming a client
\* that is not locked (a client not seen before is created unlocked with
\* nothing), is accepted if and only if available >= amount, the whole
\* available balance included, and is otherwise rejected for insufficient
\* funds. When it is accepted total drops by amount, held and locked stay,
\* the Withdrawal record of the id is created with status None
\* (undisputed), no other client changes, and available, which is then the
\* old available less the amount, is >= 0 for an amount >= 0.
C40_WithdrawalAcceptedIffCovered ==
    (/\ Stepped
     /\ IsTransaction("Withdrawal")
     /\ event.transaction_id \notin DOMAIN prev_transactions_by_id
     /\ ~LedgerBefore(event.client_id).locked) =>
       LET c == event.client_id
           before == LedgerBefore(c)
       IN  /\ Accepted <=> available(before) >= event.amount
           /\ Rejected => result = Err(ERR_INSUFFICIENT, <<>>)
           /\ Accepted =>
                 /\ clients_by_id[c].total = before.total - event.amount
                 /\ clients_by_id[c].held = before.held
                 /\ clients_by_id[c].locked = before.locked
                 /\ \A d \in DOMAIN prev_clients_by_id :
                       d # c => clients_by_id[d] = prev_clients_by_id[d]
                 /\ transactions_by_id =
                       MapInsert(prev_transactions_by_id, event.transaction_id,
                                 [client_id |-> c, amount |-> event.amount,
                                  kind |-> "Withdrawal",
                                  dispute_status |-> "None"])
                 /\ available(clients_by_id[c]) =
                       available(before) - event.amount
                 /\ event.amount >= 0 => available(clients_by_id[c]) >= 0

\* A withdrawal of exactly the available balance, a positive amount, has
\* just been accepted and has left available at 0
\* (test_successful_withdrawal takes less than the balance).
C40_Witness ==
    /\ Accepted
    /\ IsTransaction("Withdrawal")
    /\ event.amount > 0
    /\ event.client_id \in DOMAIN prev_clients_by_id
    /\ available(prev_clients_by_id[event.client_id]) = event.amount
    /\ available(clients_by_id[event.client_id]) = 0
    /\ transactions_by_id[event.transaction_id].kind = "Withdrawal"
    /\ transactions_by_id[event.transaction_id].dispute_status = "None"

====
